---------------------------- MODULE Spec2Model ----------------------------
(***************************************************************************)
(* Finger-training dosing core: the three-exponential fatigue / recovery   *)
(* curves, the scale and ratio estimators, the anchor policies and the     *)
(* multi-set planners of src/src/App.js, src/unnamed/part_000 and          *)
(* src/src/App.backup.js.                                                  *)
(*                                                                         *)
(* Numbers.  The JavaScript code computes on IEEE doubles; the model       *)
(* computes on exact rationals <<n, d>> (d > 0, lowest terms), so that an  *)
(* equality below is an equality of real numbers.  Math.exp is evaluated   *)
(* on the grid where it is rational: a duration t and a time constant tau  *)
(* are integers, t counted in units of ln(2) times the unit of tau, so     *)
(* Math.exp(-t / tau) = 2^-(t / tau) whenever tau divides t.  Values that  *)
(* are not numbers are pairs with denominator 0: NaN (which undefined     *)
(* becomes in arithmetic) and Null.                                        *)
(***************************************************************************)
EXTENDS Integers, Sequences, FiniteSets, TLC

(***************************************************************************)
(* Exact rational arithmetic (the real-number reading of JS numbers).      *)
(***************************************************************************)
Abs(i) == IF i < 0 THEN -i ELSE i

RECURSIVE Gcd(_, _)
Gcd(a, b) == IF b = 0 THEN a ELSE Gcd(b, a % b)

Rat(n, d) ==
    LET s == IF d < 0 THEN -1 ELSE 1
        g == Gcd(Abs(n), Abs(d))
    IN  IF n = 0 THEN <<0, 1>> ELSE <<(s * n) \div g, (s * d) \div g>>

\* the values that are not numbers
NaN == <<0, 0>>
Null == <<1, 0>>

Zero == <<0, 1>>
One == <<1, 1>>
Int2R(i) == <<i, 1>>

RAdd(x, y) ==
    LET g == Gcd(x[2], y[2])
        l == (x[2] \div g) * y[2]
    IN  Rat(x[1] * (l \div x[2]) + y[1] * (l \div y[2]), l)

RNeg(x) == <<-x[1], x[2]>>
RSub(x, y) == RAdd(x, RNeg(y))

RMul(x, y) ==
    LET g1 == Gcd(Abs(x[1]), y[2])
        g2 == Gcd(Abs(y[1]), x[2])
    IN  IF x[1] = 0 \/ y[1] = 0 THEN Zero
        ELSE Rat((x[1] \div g1) * (y[1] \div g2), (x[2] \div g2) * (y[2] \div g1))

\* x / y for y # 0 (every division of the code is guarded, see the callers)
RDiv(x, y) == RMul(x, Rat(y[2], y[1]))

\* a/b < c/d for b, d > 0, by continued fractions (no products, no overflow)
RECURSIVE CfLt(_, _, _, _)
CfLt(a, b, c, d) ==
    LET qa == a \div b
        qc == c \div d
        ra == a % b
        rc == c % d
    IN  IF qa # qc THEN qa < qc
        ELSE IF rc = 0 THEN FALSE
        ELSE IF ra = 0 THEN TRUE
        ELSE CfLt(d, rc, b, ra)

RLt(x, y) == CfLt(x[1], x[2], y[1], y[2])
RLe(x, y) == ~RLt(y, x)
RMax(x, y) == IF RLt(x, y) THEN y ELSE x
RMin(x, y) == IF RLt(y, x) THEN y ELSE x

RECURSIVE Pow2(_)
Pow2(n) == IF n = 0 THEN 1 ELSE 2 * Pow2(n - 1)


(***************************************************************************)
(* Utilities and curve model of src/src/App.js.                            *)
(***************************************************************************)
\* const eps = 1e-9
eps == <<1, 1000000000>>

\* Math.exp(-x) is 0 in IEEE doubles once x reaches 1075 half-lives (2^-1075)
UnderflowAt == 1075

\* const clamp = (x, lo, hi) => Math.max(lo, Math.min(hi, x))
clamp(x, lo, hi) == RMax(lo, RMin(hi, x))

\* Math.max(1e-9, tau.t1): the divisor of t in the exponent
TauFloor(tauI) == RMax(eps, Int2R(tauI))

\* t and tau on the grid where Math.exp(-t / tau) is rational (or underflows)
OnGrid(t, tauI) == tauI <= 0 \/ t % tauI = 0

\* Math.exp(-t / Math.max(1e-9, tauI)) for integers t >= 0 and tauI:
\* 2^-(t / tauI) on the grid; with the time constant floored to 1e-9 the
\* exponent is below -1e9 for every t >= 1, where the double is exactly 0
ExpNeg(t, tauI) ==
    LET d == TauFloor(tauI)
        q == t \div d[1]
    IN  CASE d = eps /\ t = 0 -> One
          [] d = eps /\ t > 0 -> Zero
          [] d # eps /\ t % d[1] = 0 /\ q >= UnderflowAt -> Zero
          [] d # eps /\ t % d[1] = 0 /\ q >= 0 /\ q < UnderflowAt -> <<1, Pow2(q)>>
          [] d # eps /\ t % d[1] = 0 /\ q < 0 -> <<Pow2(-q), 1>>

\* the sum of the weights as it comes, without the floor
WeightSumUnfloored(w1, w2, w3) == RAdd(RAdd(w1, w2), w3)

\* const s = Math.max(1e-9, Number(w1) + Number(w2) + Number(w3))
WeightSum(w1, w2, w3) == RMax(eps, RAdd(RAdd(w1, w2), w3))

\* function normalizeWeights(w1, w2, w3)
normalizeWeights(w1, w2, w3) ==
    LET s == WeightSum(w1, w2, w3)
    IN  [w1n |-> RDiv(w1, s), w2n |-> RDiv(w2, s), w3n |-> RDiv(w3, s)]

\* function fAt(t, w, tau): remaining capacity after t
fAt(t, w, tau) ==
    LET nw == normalizeWeights(w.w1, w.w2, w.w3)
        e1 == ExpNeg(t, tau.t1)
        e2 == ExpNeg(t, tau.t2)
        e3 == ExpNeg(t, tau.t3)
    IN  RAdd(RAdd(RMul(nw.w1n, e1), RMul(nw.w2n, e2)), RMul(nw.w3n, e3))

\* function recoveryFrac(t, tau): unweighted complementary recovery
recoveryFrac(t, tau) ==
    LET e1 == RSub(One, ExpNeg(t, tau.t1))
        e2 == RSub(One, ExpNeg(t, tau.t2))
        e3 == RSub(One, ExpNeg(t, tau.t3))
    IN  RDiv(RAdd(RAdd(e1, e2), e3), Int2R(3))

(***************************************************************************)
(* Ratio estimator of src/src/App.js.  An observation is [t, L]: t an      *)
(* integer duration, L a rational load.                                    *)
(***************************************************************************)
RECURSIVE Pow(_, _)
Pow(b, e) == IF e = 0 THEN 1 ELSE b * Pow(b, e - 1)

RECURSIVE RootFrom(_, _, _)
RootFrom(y, n, q) == IF Pow(y, q) >= n THEN y ELSE RootFrom(y + 1, n, q)

\* Math.exp((1 - r) * Math.log(La) + r * Math.log(Lb)) = La^(1-r) * Lb^r for
\* 0 <= r <= 1, r = p/q: the q-th root of La^(q-p) * Lb^p (La itself when
\* the two loads are equal)
ExpLogMix(La, Lb, r) ==
    LET p == r[1]
        q == r[2]
    IN  IF La = Lb THEN La
        ELSE Rat(RootFrom(0, Pow(La[1], q - p) * Pow(Lb[1], p), q),
                 RootFrom(1, Pow(La[2], q - p) * Pow(Lb[2], p), q))

\* the root above is exact (the value is rational)
ExpLogMixExact(La, Lb, r) ==
    LET y == ExpLogMix(La, Lb, r)
        p == r[1]
        q == r[2]
    IN  /\ Pow(y[1], q) = Pow(La[1], q - p) * Pow(Lb[1], p)
        /\ Pow(y[2], q) = Pow(La[2], q - p) * Pow(Lb[2], p)

RECURSIVE SumL(_, _)
SumL(pts, I) ==
    IF I = {} THEN Zero
    ELSE LET i == CHOOSE j \in I : TRUE
         IN  RAdd(pts[i].L, SumL(pts, I \ {i}))

\* step 1: duplicates (same TUT) averaged, invalid entries skipped, sorted by t
RECURSIVE AggregateFrom(_, _)
AggregateFrom(ts, pts) ==
    IF ts = {} THEN <<>>
    ELSE LET t == CHOOSE x \in ts : \A y \in ts : x <= y
             I == {i \in 1..Len(pts) : pts[i].t = t /\ RLt(Zero, pts[i].L)}
         IN  <<[t |-> Int2R(t), L |-> RDiv(SumL(pts, I), Int2R(Cardinality(I)))]>>
                 \o AggregateFrom(ts \ {t}, pts)

\* the aggregation keeping the sum of the loads of a duration, not their mean
RECURSIVE AggregateFromSum(_, _)
AggregateFromSum(ts, pts) ==
    IF ts = {} THEN <<>>
    ELSE LET t == CHOOSE x \in ts : \A y \in ts : x <= y
             I == {i \in 1..Len(pts) : pts[i].t = t /\ RLt(Zero, pts[i].L)}
         IN  <<[t |-> Int2R(t), L |-> SumL(pts, I)]>> \o AggregateFromSum(ts \ {t}, pts)

AggregateSum(pts) ==
    AggregateFromSum({pts[i].t : i \in {j \in 1..Len(pts) : pts[j].t > 0 /\ RLt(Zero, pts[j].L)}}, pts)

\* step 1: const byT = new Map() ... arr = Array.from(byT.entries()).map(...).sort(...)
Aggregate(pts) ==
    AggregateFrom({pts[i].t : i \in {j \in 1..Len(pts) : pts[j].t > 0 /\ RLt(Zero, pts[j].L)}}, pts)

\* the PAVA pass without its merge loop
PavaNoMerge(stack) == stack

\* step 2: the inner while loop of the PAVA pass (merge while a.L < b.L)
RECURSIVE PavaMerge(_)
PavaMerge(stack) ==
    IF Len(stack) < 2 THEN stack
    ELSE LET a == stack[Len(stack) - 1]
             b == stack[Len(stack)]
             wSum == a.wSum + b.wSum
         IN  IF RLt(a.L, b.L)
             THEN PavaMerge(SubSeq(stack, 1, Len(stack) - 2) \o
                    <<[tSum |-> RAdd(a.tSum, b.tSum), wSum |-> wSum,
                       L |-> RDiv(RAdd(RMul(a.L, Int2R(a.wSum)), RMul(b.L, Int2R(b.wSum))),
                                  Int2R(wSum))]>>)
             ELSE stack

RECURSIVE Pava(_, _, _)
Pava(arr, i, stack) ==
    IF i > Len(arr) THEN stack
    ELSE Pava(arr, i + 1,
              PavaMerge(Append(stack, [tSum |-> arr[i].t, wSum |-> 1, L |-> arr[i].L])))

\* .sort((a, b) => a.t - b.t): stable insertion of each element by t
RECURSIVE SortByT(_)
SortByT(arr) ==
    IF Len(arr) <= 1 THEN arr
    ELSE LET rest == SortByT(SubSeq(arr, 1, Len(arr) - 1))
             x == arr[Len(arr)]
             k == Cardinality({i \in 1..Len(rest) : RLe(rest[i].t, x.t)})
         IN  SubSeq(rest, 1, k) \o <<x>> \o SubSeq(rest, k + 1, Len(rest))

\* step 3: blocks expanded back to points (block-average t)
Expand(stack) ==
    [i \in 1..Len(stack) |->
        [t |-> RDiv(stack[i].tSum, Int2R(stack[i].wSum)), L |-> stack[i].L]]

\* steps 1 to 3: aggregate, pool, expand and sort by t
Pooled(pts) == SortByT(Expand(Pava(Aggregate(pts), 1, <<>>)))

\* step 4: the first bracket i with arr[i].t <= targetT <= arr[i+1].t (0: none)
Bracket(T, arr) ==
    LET B == {i \in 1..(Len(arr) - 1) : RLe(arr[i].t, T) /\ RLe(T, arr[i + 1].t)}
    IN  IF B = {} THEN 0 ELSE CHOOSE i \in B : \A j \in B : i <= j

\* the interpolation weight measured from b instead of from a
InterpAtFromB(T, a, b) ==
    LET r == RDiv(RSub(b.t, T), RMax(eps, RSub(b.t, a.t)))
        La == RMax(eps, a.L)
        Lb == RMax(eps, b.L)
    IN  [La |-> La, Lb |-> Lb, r |-> r]

\* Math.max(eps, b.t - a.t): the divisor of the interpolation weight
BracketWidth(a, b) == RMax(eps, RSub(b.t, a.t))

InterpAt(T, a, b) ==
    LET r == RDiv(RSub(T, a.t), BracketWidth(a, b))
        La == RMax(eps, a.L)
        Lb == RMax(eps, b.L)
    IN  [La |-> La, Lb |-> Lb, r |-> r]

\* Math.exp((1 - r) * Math.log(La) + r * Math.log(Lb)) of the bracket m
LogInterp(m) == ExpLogMix(m.La, m.Lb, m.r)

\* the edge returns with the first block's load at the upper edge too
RatioFromPooledFirstAtBothEdges(T, arr0, arr) ==
    LET i == Bracket(T, arr)
    IN  IF Len(arr0) = 0 THEN Zero
        ELSE IF RLe(T, arr[1].t) THEN arr[1].L
        ELSE IF RLe(arr[Len(arr)].t, T) THEN arr[1].L
        ELSE IF i # 0 THEN LogInterp(InterpAt(T, arr[i], arr[i + 1]))
        ELSE arr[Len(arr)].L

\* ratioLoadForT from the aggregated points arr0 and the pooled points arr:
\* the edge returns, the bracket, the log-space interpolation
RatioFromPooled(T, arr0, arr) ==
    LET i == Bracket(T, arr)
    IN  IF Len(arr0) = 0 THEN Zero
        ELSE IF RLe(T, arr[1].t) THEN arr[1].L
        ELSE IF RLe(arr[Len(arr)].t, T) THEN arr[Len(arr)].L
        ELSE IF i # 0 THEN LogInterp(InterpAt(T, arr[i], arr[i + 1]))
        ELSE arr[Len(arr)].L

\* function ratioLoadForT(targetT, pts)
ratioLoadForT(targetT, pts) ==
    IF Len(pts) = 0 THEN Zero
    ELSE RatioFromPooled(Int2R(targetT), Aggregate(pts), Pooled(pts))

\* the bracket m is on the grid: a root of small degree that is exact
BracketOnGrid(m) == m.r[2] <= 4 /\ ExpLogMixExact(m.La, m.Lb, m.r)

\* RatioOnGrid from the pooled points arr
PooledOnGrid(T, arr) ==
    LET i == Bracket(T, arr)
    IN  IF Len(arr) = 0 THEN TRUE
        ELSE IF RLe(T, arr[1].t) \/ RLe(arr[Len(arr)].t, T) THEN TRUE
        ELSE IF i = 0 THEN TRUE
        ELSE BracketOnGrid(InterpAt(T, arr[i], arr[i + 1]))

\* the interpolation of ratioLoadForT(targetT, pts), when reached, is rational
\* (a root of small degree that is exact)
RatioOnGrid(targetT, pts) == PooledOnGrid(Int2R(targetT), Pooled(pts))

(***************************************************************************)
(* Scale and model estimators of src/src/App.js.                           *)
(***************************************************************************)
\* the loop counting every observation, also those it skips
RECURSIVE ScaleLoopCountAll(_, _, _, _, _, _)
ScaleLoopCountAll(pts, i, w, tau, sum, n) ==
    IF i > Len(pts) THEN [sum |-> sum, n |-> n]
    ELSE LET denom == fAt(pts[i].t, w, tau)
         IN  IF RLt(eps, denom)
             THEN ScaleLoopCountAll(pts, i + 1, w, tau, RAdd(sum, RDiv(pts[i].L, denom)), n + 1)
             ELSE ScaleLoopCountAll(pts, i + 1, w, tau, sum, n + 1)

\* if (denom > eps)
DenomUsable(denom) == RLt(eps, denom)

RECURSIVE ScaleLoop(_, _, _, _, _, _)
ScaleLoop(pts, i, w, tau, sum, n) ==
    IF i > Len(pts) THEN [sum |-> sum, n |-> n]
    ELSE LET denom == fAt(pts[i].t, w, tau)
         IN  IF DenomUsable(denom)
             THEN ScaleLoop(pts, i + 1, w, tau, RAdd(sum, RDiv(pts[i].L, denom)), n + 1)
             ELSE ScaleLoop(pts, i + 1, w, tau, sum, n)

\* the mean of the accumulated ratios, 1 when there is none
MeanOrOne(acc) == IF acc.n # 0 THEN RDiv(acc.sum, Int2R(acc.n)) ELSE One

\* return n ? sum / n : 0
MeanOrZero(acc) == IF acc.n # 0 THEN RDiv(acc.sum, Int2R(acc.n)) ELSE Zero

\* function scaleFromHistory(pts, w, tau, manualScale)
scaleFromHistory(pts, w, tau, manualScale) ==
    IF RLt(Zero, manualScale) THEN manualScale
    ELSE MeanOrZero(ScaleLoop(pts, 1, w, tau, Zero, 0))

\* modelLoadForT evaluating the curve at 0 instead of T
modelLoadForTAtZero(T, pts, w, tau, manualScale) ==
    RMul(scaleFromHistory(pts, w, tau, manualScale), fAt(0, w, tau))

\* function modelLoadForT(T, pts, w, tau, manualScale)
modelLoadForT(T, pts, w, tau, manualScale) ==
    RMul(scaleFromHistory(pts, w, tau, manualScale), fAt(T, w, tau))

(***************************************************************************)
(* Multi-set planner planSets of src/src/App.js, one action per step of    *)
(* the function: entry (scale, base), one loop iteration, loop exit, cap.  *)
(***************************************************************************)
VARIABLES
    req,              \* the arguments of the running planSets call
    pc,               \* position in planSets: "start", "loop", "cap", "done"
    scale0,           \* const scale0
    base,             \* let base
    s,                \* loop counter s
    currentCapacity,  \* let currentCapacity
    out,              \* const out
    simReq,           \* part_000: the arguments of recommendLoadForPlan
    simPc,            \* part_000: "start", "loop", "simulated", "done"
    C,                \* part_000: let C (capacity before the next rep)
    capacities,       \* part_000: const capacities
    simS,             \* part_000: outer loop counter s
    simR,             \* part_000: inner loop counter r
    recLoad,          \* part_000: the value recommendLoadForPlan returns
    estimates,        \* App.backup.js: [model, ratio] = modelLoadL, ratioLoadL
    combined,         \* App.backup.js: combinedL
    bkPc,             \* App.backup.js: "start" before combinedL is computed, then "done",
                      \* "planned" once planL is computed
    bkForm,           \* App.backup.js: [reps, rest, beta] = planReps, planRest, betaL
    bkPlan,           \* App.backup.js: planL
    history,          \* App component: S.history
    cfg,              \* App component: weights, tau, manual scales, targets, planL, planR
    ptsL,             \* App component: const ptsL
    ptsR,             \* App component: const ptsR
    scaleL,           \* App component: const scaleL
    scaleR,           \* App component: const scaleR
    recL,             \* App component: const recL = recs("L")
    recR,             \* App component: const recR = recs("R")
    loadsPlanL,       \* App component: const loadsPlanL
    loadsPlanR,       \* App component: const loadsPlanR
    appPc,            \* App component: which of the values above the render has computed
    chart,            \* chart loops: the implementation sampled and its curve parameters
    chartPc,          \* chart loops: "fatigue", "recovery", "done" ("idle": no chart)
    chartT,           \* chart loops: the loop variable t
    fatigueData,      \* chart loops: the fatigue values pushed so far
    recSeries,        \* chart loops: the recovery values pushed so far
    conf,             \* settings: the stored curve parameters [impl, wLeft, wRight, tau, rec]
    confPc,           \* settings: "editing" while the settings panel is in use ("idle": not)
    confN,            \* settings: the number of setter operations so far
    evalIn,           \* curve call: the arguments [impl, w, tau, rec, t, a, b, T, pts]
    evalPc,           \* curve call: "curve", "interp", "scale", "done" ("idle": none)
    denoms,           \* curve call: the divisors used so far, in order of use
    evalF,            \* curve call: the fatigue value returned for t
    evalR,            \* curve call: the recovery value returned for t
    evalRatio,        \* curve call: the value ratioLoadForT(T, pts) returned
    user,             \* sessions: TRUE while a user is signed in (user !== null)
    localHist,        \* sessions: S.history, newest first; a row is [rec, id, leftLoad, ...]
    cloud,            \* sessions: the rows of the cloud table, newest first
    inserts,          \* sessions: the cloud inserts in flight, [rec, st, row]
    loadPc,           \* sessions: the cloud history load: "none", "issued", "answered"
    loadData,         \* sessions: the rows the select of the load has read
    added,            \* sessions: the records added by onAddSession
    gone,             \* sessions: the records the user has deleted or cleared
    syncPc            \* sessions: "running" while the sessions tab is in use ("idle": not)

planVars == <<req, pc, scale0, base, s, currentCapacity, out>>
simVars == <<simReq, simPc, C, capacities, simS, simR, recLoad>>
backupVars == <<estimates, combined, bkPc, bkForm, bkPlan>>
appVars == <<history, cfg, ptsL, ptsR, scaleL, scaleR, recL, recR, loadsPlanL, loadsPlanR, appPc>>
chartVars == <<chart, chartPc, chartT, fatigueData, recSeries>>
confVars == <<conf, confPc, confN>>
evalVars == <<evalIn, evalPc, denoms, evalF, evalR, evalRatio>>
syncVars == <<user, localHist, cloud, inserts, loadPc, loadData, added, gone, syncPc>>
vars == <<planVars, simVars, backupVars, appVars, chartVars, confVars, evalVars, syncVars>>

\* the lower clamp of the capacity update (0.1)
CapFloor == <<1, 10>>

\* AnchorBase with the "model" branch missing (every policy but "ratio" is min)
AnchorBaseNoModel(anchor, modelBase, ratioBase) ==
    IF anchor = "ratio" THEN (IF ratioBase # Zero THEN ratioBase ELSE modelBase)
    ELSE IF ratioBase # Zero THEN RMin(modelBase, ratioBase) ELSE modelBase

\* AnchorBase whose "ratio" branch has no fallback to the model estimate
AnchorBaseNoFallback(anchor, modelBase, ratioBase) ==
    IF anchor = "ratio" THEN ratioBase
    ELSE IF anchor = "model" THEN modelBase
    ELSE IF ratioBase # Zero THEN RMin(modelBase, ratioBase) ELSE modelBase

\* First-set base according to anchor
AnchorBase(anchor, modelBase, ratioBase) ==
    IF anchor = "ratio" THEN (IF ratioBase # Zero THEN ratioBase ELSE modelBase)
    ELSE IF anchor = "model" THEN modelBase
    ELSE IF ratioBase # Zero THEN RMin(modelBase, ratioBase) ELSE modelBase

\* LoadOf with the load divided by the capacity, so that later sets get more
LoadOfPerCapacity(precise, sc, b, cap, f) ==
    LET closedForm == RDiv(RMul(sc, f), cap)
        load == IF precise THEN closedForm ELSE RDiv(b, cap)
    IN  RMax(Zero, load)

\* LoadOf with the two branches of the conditional swapped
LoadOfSwapped(precise, sc, b, cap, f) ==
    LET closedForm == RMul(RMul(sc, cap), f)
        load == IF precise THEN RMul(b, cap) ELSE closedForm
    IN  RMax(Zero, load)

\* const load = precise ? closedForm : base * currentCapacity; Math.max(0, load)
LoadOf(precise, sc, b, cap, f) ==
    LET closedForm == RMul(RMul(sc, cap), f)
        load == IF precise THEN closedForm ELSE RMul(b, cap)
    IN  RMax(Zero, load)

\* fatigue during the set, then recovery, clamped to [0.1, 1.0]
NextCapacity(cap, f, rec) ==
    LET worked == RMul(cap, f)
    IN  clamp(RAdd(worked, RMul(RSub(One, worked), rec)), CapFloor, One)

\* CapLoads with the cap pass left out
CapLoadsUncapped(o, capDrop) == o

\* CapLoads with Math.max written for Math.min
CapLoadsMax(o, capDrop) ==
    IF Len(o) > 1
    THEN [i \in 1..Len(o) |->
            IF i = 1 THEN o[1] ELSE RMax(o[i], RMul(o[1], RAdd(One, capDrop)))]
    ELSE o

\* Cap: later sets shouldn't wildly exceed the first
CapLoads(o, capDrop) ==
    IF Len(o) > 1
    THEN [i \in 1..Len(o) |->
            IF i = 1 THEN o[1] ELSE RMin(o[i], RMul(o[1], RAdd(One, capDrop)))]
    ELSE o

\* Array.from({ length: sets }, () => 0)
Zeros(n) == [i \in 1..n |-> Zero]

\* the loop guard with < written for <=
PlanLoopGuardShort(i, sets) == i < sets

\* for (let s = 1; s <= sets; s++)
PlanLoopGuard(i, sets) == i <= sets

\* the loop of planSets as a function: the loads pushed from iteration i on
RECURSIVE PlanLoop(_, _, _, _, _, _)
PlanLoop(r, sc, b, i, cap, o) ==
    LET f == fAt(r.TUT, r.w, r.tau)
        rec == recoveryFrac(r.restSec, r.tau)
    IN  IF PlanLoopGuard(i, r.sets)
        THEN PlanLoop(r, sc, b, i + 1, NextCapacity(cap, f, rec),
                      Append(o, LoadOf(r.precise, sc, b, cap, f)))
        ELSE o

\* function planSets({TUT, sets, restSec, pts, w, tau, manualScale, capDrop,
\* precise, anchor}): the value returned
planSets(r) ==
    LET sc == scaleFromHistory(r.pts, r.w, r.tau, r.manualScale)
        modelBase == RMul(sc, fAt(r.TUT, r.w, r.tau))
        ratioBase == ratioLoadForT(r.TUT, r.pts)
        b == AnchorBase(r.anchor, modelBase, ratioBase)
    IN  IF RLe(sc, Zero) THEN Zeros(r.sets)
        ELSE CapLoads(PlanLoop(r, sc, b, 1, One, <<>>), r.capDrop)

PlanEnter ==
    /\ pc = "start"
    /\ LET sc == scaleFromHistory(req.pts, req.w, req.tau, req.manualScale)
           modelBase == RMul(sc, fAt(req.TUT, req.w, req.tau))
           ratioBase == ratioLoadForT(req.TUT, req.pts)
       IN  /\ scale0' = sc
           /\ IF RLe(sc, Zero)
              THEN /\ out' = Zeros(req.sets)
                   /\ pc' = "done"
                   /\ UNCHANGED <<base, s, currentCapacity>>
              ELSE /\ base' = AnchorBase(req.anchor, modelBase, ratioBase)
                   /\ currentCapacity' = One
                   /\ out' = <<>>
                   /\ s' = 1
                   /\ pc' = "loop"
    /\ UNCHANGED <<req, simVars, backupVars>>
    /\ UNCHANGED <<appVars, chartVars, confVars, evalVars, syncVars>>

PlanRep ==
    /\ pc = "loop"
    /\ PlanLoopGuard(s, req.sets)
    /\ LET f == fAt(req.TUT, req.w, req.tau)
           rec == recoveryFrac(req.restSec, req.tau)
       IN  /\ out' = Append(out, LoadOf(req.precise, scale0, base, currentCapacity, f))
           /\ currentCapacity' = NextCapacity(currentCapacity, f, rec)
    /\ s' = s + 1
    /\ UNCHANGED <<req, pc, scale0, base, simVars, backupVars>>
    /\ UNCHANGED <<appVars, chartVars, confVars, evalVars, syncVars>>

PlanLoopExit ==
    /\ pc = "loop"
    /\ ~PlanLoopGuard(s, req.sets)
    /\ pc' = "cap"
    /\ UNCHANGED <<req, scale0, base, s, currentCapacity, out, simVars, backupVars>>
    /\ UNCHANGED <<appVars, chartVars, confVars, evalVars, syncVars>>

PlanCap ==
    /\ pc = "cap"
    /\ out' = CapLoads(out, req.capDrop)
    /\ pc' = "done"
    /\ UNCHANGED <<req, scale0, base, s, currentCapacity, simVars, backupVars>>
    /\ UNCHANGED <<appVars, chartVars, confVars, evalVars, syncVars>>

(***************************************************************************)
(* Inputs of planSets.                                                     *)
(***************************************************************************)
MaxSets == 3

Obs(t, l) == [t |-> t, L |-> Int2R(l)]

\* observation lists as historyPoints returns them (sorted by t)
PtsChoices ==
    { <<>>,
      <<Obs(2, 64)>>,
      <<Obs(2, 64), Obs(4, 16)>>,
      <<Obs(2, 16), Obs(4, 64)>>,
      <<Obs(2 * UnderflowAt, 32)>>,
      <<Obs(2, 16), Obs(2 * UnderflowAt, 32)>>,
      <<Obs(2, 32), Obs(4, 16), Obs(6, 64)>>,
      <<Obs(2, 64), Obs(4, 32), Obs(6, 16)>> }

W(a, b, c) == [w1 |-> Int2R(a), w2 |-> Int2R(b), w3 |-> Int2R(c)]
Tau(a, b, c) == [t1 |-> a, t2 |-> b, t3 |-> c]

\* weights and time constants: the defaults' equal weights, and unequal ones
CurveChoices == {<<W(1, 1, 1), Tau(1, 1, 1)>>, <<W(1, 1, 2), Tau(1, 1, 2)>>}
TUTChoices == {0, 2, 4}
RestChoices == {0, 2}
ManualScaleChoices == {Zero, Int2R(64)}
\* capDrop: the default 0.15, and a negative fraction (planSets takes the
\* parameter as given; only the planner form keeps it within [0, 1])
CapDropChoices == {Rat(-1, 2), Rat(3, 20)}
\* the three anchors planSets names, and one it does not ("average" takes
\* the final else branch, as any other string does)
AnchorChoices == {"min", "model", "ratio", "average"}

\* target durations and histories whose ratio estimate is rational
GridPairs == {x \in TUTChoices \X PtsChoices : RatioOnGrid(x[1], x[2])}

PlanRequests ==
    {[TUT |-> x[1], pts |-> x[2], sets |-> r.sets, restSec |-> r.restSec,
      w |-> r.curve[1], tau |-> r.curve[2], manualScale |-> r.manualScale,
      capDrop |-> r.capDrop, precise |-> r.precise, anchor |-> r.anchor] :
        x \in GridPairs,
        r \in [sets : (-1)..MaxSets, restSec : RestChoices, curve : CurveChoices,
               manualScale : ManualScaleChoices, capDrop : CapDropChoices,
               precise : BOOLEAN, anchor : AnchorChoices]}

(***************************************************************************)
(* Capacity simulation and load recommendation of src/unnamed/part_000.    *)
(***************************************************************************)
\* function fAt(t, w, tau) of part_000: the weights are used as stored
fAtPlan(t, w, tau) ==
    RAdd(RAdd(RMul(w.w1, ExpNeg(t, tau.tau1)), RMul(w.w2, ExpNeg(t, tau.tau2))),
         RMul(w.w3, ExpNeg(t, tau.tau3)))

\* function Rof(r, w, rec): recovery fraction over rest r
Rof(r, w, rec) ==
    RSub(One, RAdd(RAdd(RMul(w.w1, ExpNeg(r, rec.r1)), RMul(w.w2, ExpNeg(r, rec.r2))),
                   RMul(w.w3, ExpNeg(r, rec.r3))))

\* C = 1 - (1 - Cend) * factor, Cend = C * fT
SimNextC(c, fT, factor) == RSub(One, RMul(RSub(One, RMul(c, fT)), factor))

\* const Cbefore = clamp(capacities[idx], 0, 1); return max * Cbefore * fT
\* (idx is 0-based; an index outside the array reads undefined, and
\* Math.min(1, undefined) is NaN)
RecommendValue(max, caps, idx, fT) ==
    IF idx + 1 \in 1..Len(caps)
    THEN RMul(RMul(max, clamp(caps[idx + 1], Zero, One)), fT)
    ELSE NaN

SimEnter ==
    /\ simPc = "start"
    /\ C' = One
    /\ capacities' = <<>>
    /\ simS' = 0
    /\ simR' = 0
    /\ simPc' = "loop"
    /\ UNCHANGED <<simReq, recLoad, planVars, backupVars>>
    /\ UNCHANGED <<appVars, chartVars, confVars, evalVars, syncVars>>

SimRep ==
    /\ simPc = "loop"
    /\ simS < simReq.sets
    /\ simR < simReq.repsPerSet
    /\ LET fT == fAtPlan(simReq.T, simReq.w, simReq.tau)
           repFactor == RSub(One, Rof(simReq.restRep, simReq.w, simReq.rec))
           setFactor == RSub(One, Rof(simReq.restSet, simReq.w, simReq.rec))
           isLastInSet == simR = simReq.repsPerSet - 1
           factor == IF isLastInSet THEN setFactor ELSE repFactor
       IN  /\ capacities' = Append(capacities, C)
           /\ C' = SimNextC(C, fT, factor)
    /\ simR' = simR + 1
    /\ UNCHANGED <<simReq, simPc, simS, recLoad, planVars, backupVars>>
    /\ UNCHANGED <<appVars, chartVars, confVars, evalVars, syncVars>>

SimNextSet ==
    /\ simPc = "loop"
    /\ simS < simReq.sets
    /\ simR >= simReq.repsPerSet
    /\ simS' = simS + 1
    /\ simR' = 0
    /\ UNCHANGED <<simReq, simPc, C, capacities, recLoad, planVars, backupVars>>
    /\ UNCHANGED <<appVars, chartVars, confVars, evalVars, syncVars>>

SimReturn ==
    /\ simPc = "loop"
    /\ simS >= simReq.sets
    /\ simPc' = "simulated"
    /\ UNCHANGED <<simReq, C, capacities, simS, simR, recLoad, planVars, backupVars>>
    /\ UNCHANGED <<appVars, chartVars, confVars, evalVars, syncVars>>

Recommend ==
    /\ simPc = "simulated"
    /\ LET fT == fAtPlan(simReq.T, simReq.w, simReq.tau)
           idx == IF simReq.anchor = "planEnd" THEN Len(capacities) - 1
                  ELSE IF simReq.repsPerSet - 1 > 0 THEN simReq.repsPerSet - 1 ELSE 0
       IN  recLoad' = RecommendValue(simReq.max, capacities, idx, fT)
    /\ simPc' = "done"
    /\ UNCHANGED <<simReq, C, capacities, simS, simR, planVars, backupVars>>
    /\ UNCHANGED <<appVars, chartVars, confVars, evalVars, syncVars>>

(***************************************************************************)
(* Combined ("average") recommendation of src/src/App.backup.js.           *)
(***************************************************************************)
\* Math.round(x * 10) / 10 (Math.round rounds half up)
Round1(x) ==
    LET y == RAdd(RMul(x, Int2R(10)), Rat(1, 2))
    IN  Rat(y[1] \div y[2], 10)

\* const combinedL = useMemo(...): mean of the non-null estimates, rounded
combinedOf(modelLoad, ratioLoad) ==
    LET xs == SelectSeq(<<modelLoad, ratioLoad>>, LAMBDA v : v # Null)
        sum == IF Len(xs) = 2 THEN RAdd(xs[1], xs[2]) ELSE xs[1]
    IN  IF Len(xs) = 0 THEN Null
        ELSE Round1(RDiv(sum, Int2R(Len(xs))))

Combine ==
    /\ bkPc = "start"
    /\ combined' = combinedOf(estimates.model, estimates.ratio)
    /\ bkPc' = "done"
    /\ UNCHANGED <<estimates, bkForm, bkPlan, planVars, simVars>>
    /\ UNCHANGED <<appVars, chartVars, confVars, evalVars, syncVars>>

\* !x for a number or null
Falsy(x) == x \in {Null, NaN, Zero}

\* const factor = Math.max(0.7, 1 - step * i), step = 0.05 * (1 - restFactor),
\* restFactor = Math.max(0, Math.min(1, rest / 180))
TaperFactor(rest, i) ==
    LET restFactor == RMax(Zero, RMin(One, Rat(rest, 180)))
        step == RMul(Rat(1, 20), RSub(One, restFactor))
    IN  RMax(Rat(7, 10), RSub(One, RMul(step, Int2R(i))))

\* multiSetPlan pushing base * factor as it is
multiSetPlanUnrounded(base0, beta, reps, rest) ==
    IF Falsy(base0) \/ Falsy(beta) \/ reps = 0 THEN <<>>
    ELSE [k \in 1..reps |-> RMul(base0, TaperFactor(rest, k - 1))]

\* function multiSetPlan({ targetT, base, beta, reps, rest })
multiSetPlan(base0, beta, reps, rest) ==
    IF Falsy(base0) \/ Falsy(beta) \/ reps = 0 THEN <<>>
    ELSE [k \in 1..reps |-> Round1(RMul(base0, TaperFactor(rest, k - 1)))]

\* const planL = useMemo(() => (combinedL != null ? multiSetPlan({...}) : []))
BackupPlan ==
    /\ bkPc = "done"
    /\ bkPlan' = IF combined # Null
                 THEN multiSetPlan(combined, bkForm.beta, bkForm.reps, bkForm.rest)
                 ELSE <<>>
    /\ bkPc' = "planned"
    /\ UNCHANGED <<estimates, combined, bkForm, planVars, simVars>>
    /\ UNCHANGED <<appVars, chartVars, confVars, evalVars, syncVars>>

(***************************************************************************)
(* One render of the App component of src/src/App.js: the observations,    *)
(* scales, recommendations and plans of the two hands.  A history record   *)
(* is [leftDur, leftLoad, rightDur, rightLoad], each a number.             *)
(***************************************************************************)
\* Number(x) || 0
NumberOr0(x) == IF x = NaN THEN Zero ELSE x

\* the map callback reading the other hand's load for the left hand
SideFieldsCrossed(r, hand) ==
    IF hand = "L"
    THEN [t |-> NumberOr0(r.leftDur), L |-> NumberOr0(r.rightLoad)]
    ELSE [t |-> NumberOr0(r.rightDur), L |-> NumberOr0(r.rightLoad)]

\* hand === "L" ? { t: leftDur, L: leftLoad } : { t: rightDur, L: rightLoad }
SideFields(r, hand) ==
    IF hand = "L"
    THEN [t |-> NumberOr0(r.leftDur), L |-> NumberOr0(r.leftLoad)]
    ELSE [t |-> NumberOr0(r.rightDur), L |-> NumberOr0(r.rightLoad)]

\* the filter with the load test missing
UsableDurOnly(p) == RLt(Zero, p.t)

\* .filter((p) => p.t > 0 && p.L > 0)
Usable(p) == RLt(Zero, p.t) /\ RLt(Zero, p.L)

\* function historyPoints(history, hand): map, filter, sort by t (durations
\* are whole numbers of the time unit; an observation keeps t as an integer)
historyPoints(h, hand) ==
    LET mapped == [i \in 1..Len(h) |-> SideFields(h[i], hand)]
        sorted == SortByT(SelectSeq(mapped, Usable))
    IN  [i \in 1..Len(sorted) |-> [t |-> sorted[i].t[1], L |-> sorted[i].L]]

\* function recs(hand), given the hand's pts, w and manualScale
recs(pts, w, tau, manualScale, targets) ==
    [model20 |-> modelLoadForT(targets.power, pts, w, tau, manualScale),
     model60 |-> modelLoadForT(targets.strength, pts, w, tau, manualScale),
     model180 |-> modelLoadForT(targets.endurance, pts, w, tau, manualScale),
     ratio20 |-> ratioLoadForT(targets.power, pts),
     ratio60 |-> ratioLoadForT(targets.strength, pts),
     ratio180 |-> ratioLoadForT(targets.endurance, pts)]

\* the argument object of the planSets call of loadsPlanL / loadsPlanR
PlanArgs(plan, pts, w, tau, manualScale) ==
    [TUT |-> plan.TUT, sets |-> plan.sets, restSec |-> plan.rest,
     capDrop |-> plan.cap, pts |-> pts, w |-> w, tau |-> tau,
     manualScale |-> manualScale, precise |-> plan.precise, anchor |-> plan.anchor]

\* const ptsL = useMemo(...), const ptsR = useMemo(...)
AppPoints ==
    /\ appPc = "start"
    /\ ptsL' = historyPoints(history, "L")
    /\ ptsR' = historyPoints(history, "R")
    /\ appPc' = "points"
    /\ UNCHANGED <<history, cfg, scaleL, scaleR, recL, recR, loadsPlanL, loadsPlanR>>
    /\ UNCHANGED <<planVars, simVars, backupVars, chartVars, confVars, evalVars, syncVars>>

\* const scaleL = useMemo(...), const scaleR = useMemo(...)
AppScales ==
    /\ appPc = "points"
    /\ scaleL' = scaleFromHistory(ptsL, cfg.wLeft, cfg.tau, cfg.manualScaleL)
    /\ scaleR' = scaleFromHistory(ptsR, cfg.wRight, cfg.tau, cfg.manualScaleR)
    /\ appPc' = "scales"
    /\ UNCHANGED <<history, cfg, ptsL, ptsR, recL, recR, loadsPlanL, loadsPlanR>>
    /\ UNCHANGED <<planVars, simVars, backupVars, chartVars, confVars, evalVars, syncVars>>

\* const recL = recs("L"); const recR = recs("R")
AppRecs ==
    /\ appPc = "scales"
    /\ recL' = recs(ptsL, cfg.wLeft, cfg.tau, cfg.manualScaleL, cfg.targets)
    /\ recR' = recs(ptsR, cfg.wRight, cfg.tau, cfg.manualScaleR, cfg.targets)
    /\ appPc' = "recs"
    /\ UNCHANGED <<history, cfg, ptsL, ptsR, scaleL, scaleR, loadsPlanL, loadsPlanR>>
    /\ UNCHANGED <<planVars, simVars, backupVars, chartVars, confVars, evalVars, syncVars>>

\* const loadsPlanL = useMemo(...), const loadsPlanR = useMemo(...)
AppPlans ==
    /\ appPc = "recs"
    /\ loadsPlanL' = planSets(PlanArgs(cfg.planL, ptsL, cfg.wLeft, cfg.tau, cfg.manualScaleL))
    /\ loadsPlanR' = planSets(PlanArgs(cfg.planR, ptsR, cfg.wRight, cfg.tau, cfg.manualScaleR))
    /\ appPc' = "done"
    /\ UNCHANGED <<history, cfg, ptsL, ptsR, scaleL, scaleR, recL, recR>>
    /\ UNCHANGED <<planVars, simVars, backupVars, chartVars, confVars, evalVars, syncVars>>

(***************************************************************************)
(* Inputs of the App component.                                            *)
(***************************************************************************)
MaxHist == 2

\* one hand's duration and load of a record
Side(t, l) == [dur |-> Int2R(t), load |-> Int2R(l)]
LeftSides == {Side(2, 64), Side(6, 16), Side(6, 0)}
RightSides == {Side(2, 16), Side(6, 64), Side(-2, 64)}

HistoryRecords ==
    {[leftDur |-> l.dur, leftLoad |-> l.load, rightDur |-> r.dur, rightLoad |-> r.load] :
        l \in LeftSides, r \in RightSides}

Histories == UNION {[1..n -> HistoryRecords] : n \in 0..MaxHist}

Targets(a, b, c) == [power |-> a, strength |-> b, endurance |-> c]
PlanForm(n, T, r, p, a) ==
    [sets |-> n, TUT |-> T, rest |-> r, cap |-> Rat(3, 20), precise |-> p, anchor |-> a]

\* the state S besides the history, and the two planner forms
AppConfigs ==
    {[wLeft |-> W(1, 1, 1), wRight |-> W(1, 1, 2), tau |-> Tau(1, 1, 2),
      manualScaleL |-> Zero, manualScaleR |-> Zero, targets |-> Targets(2, 4, 6),
      planL |-> PlanForm(2, 4, 2, FALSE, "min"), planR |-> PlanForm(1, 2, 0, TRUE, "min")],
     [wLeft |-> W(1, 1, 2), wRight |-> W(1, 1, 1), tau |-> Tau(1, 1, 1),
      manualScaleL |-> Zero, manualScaleR |-> Int2R(64), targets |-> Targets(4, 6, 8),
      planL |-> PlanForm(2, 2, 0, TRUE, "ratio"), planR |-> PlanForm(2, 4, 2, FALSE, "model")],
     [wLeft |-> W(1, 1, 1), wRight |-> W(1, 1, 1), tau |-> Tau(1, 1, 1),
      manualScaleL |-> Int2R(64), manualScaleR |-> Zero, targets |-> Targets(0, 2, 4),
      planL |-> PlanForm(1, 0, 0, TRUE, "min"), planR |-> PlanForm(1, 0, 2, TRUE, "min")]}

AppIdle ==
    /\ ptsL = <<>> /\ ptsR = <<>>
    /\ scaleL = Zero /\ scaleR = Zero
    /\ recL = <<>> /\ recR = <<>>
    /\ loadsPlanL = <<>> /\ loadsPlanR = <<>>

\* ---------------------------------------------------------------------
\* The chart loops: each curve implementation sampled at t = 0, step, ...
\* (part_000 fatigueData and the recovery charts, App.js recSeries and the
\* fatigue chart, App.backup.js buildAdjustedCurve)
\* ---------------------------------------------------------------------

\* p.t1 || 1
TauOr1(x) == IF x = 0 THEN 1 ELSE x

\* function triShape(T, p) of App.backup.js, with its Math.max(0, T)
triShape(T, p) ==
    LET wsum == RMax(eps, RAdd(RAdd(p.w1, p.w2), p.w3))
        w1 == RDiv(p.w1, wsum)
        w2 == RDiv(p.w2, wsum)
        w3 == RDiv(p.w3, wsum)
        T0 == IF T < 0 THEN 0 ELSE T
        e1 == ExpNeg(T0, TauOr1(p.t1))
        e2 == ExpNeg(T0, TauOr1(p.t2))
        e3 == ExpNeg(T0, TauOr1(p.t3))
    IN  RAdd(RAdd(RMul(w1, e1), RMul(w2, e2)), RMul(w3, e3))

\* the fatigue curve of the implementation c.impl at t
FatigueOf(c, t) ==
    CASE c.impl = "App.js" -> fAt(t, c.w, c.tau)
      [] c.impl = "part_000" ->
             fAtPlan(t, c.w, [tau1 |-> c.tau.t1, tau2 |-> c.tau.t2, tau3 |-> c.tau.t3])
      [] c.impl = "App.backup.js" ->
             triShape(t, [w1 |-> c.w.w1, w2 |-> c.w.w2, w3 |-> c.w.w3,
                          t1 |-> c.tau.t1, t2 |-> c.tau.t2, t3 |-> c.tau.t3])

\* the recovery curve of the implementation c.impl at rest r
RecoveryOf(c, r) ==
    CASE c.impl = "App.js" -> recoveryFrac(r, c.tau)
      [] c.impl = "part_000" ->
             Rof(r, c.w, [r1 |-> c.rec.t1, r2 |-> c.rec.t2, r3 |-> c.rec.t3])

\* the charts' step of t, and the number of points of a chart
ChartStep == 2
MaxChartPoints == 4
ChartMax == ChartStep * (MaxChartPoints - 1)

\* for (let t = 0; t <= chartMax; t += step) out.push(... fAt(t, w, tau) ...)
ChartFatigue ==
    /\ chartPc = "fatigue"
    /\ chartT <= ChartMax
    /\ fatigueData' = Append(fatigueData, FatigueOf(chart, chartT))
    /\ IF chartT + ChartStep <= ChartMax
       THEN chartT' = chartT + ChartStep /\ chartPc' = chartPc
       ELSE /\ chartT' = 0
            /\ chartPc' = IF chart.impl = "App.backup.js" THEN "done" ELSE "recovery"
    /\ UNCHANGED <<chart, recSeries>>
    /\ UNCHANGED <<planVars, simVars, backupVars, appVars, confVars, evalVars, syncVars>>

\* for (let t = 0; t <= chartTmax; t += step) arr.push(... recoveryFrac(t, tau) ...)
ChartRecovery ==
    /\ chartPc = "recovery"
    /\ chartT <= ChartMax
    /\ recSeries' = Append(recSeries, RecoveryOf(chart, chartT))
    /\ IF chartT + ChartStep <= ChartMax
       THEN chartT' = chartT + ChartStep /\ chartPc' = chartPc
       ELSE chartT' = chartT /\ chartPc' = "done"
    /\ UNCHANGED <<chart, fatigueData>>
    /\ UNCHANGED <<planVars, simVars, backupVars, appVars, confVars, evalVars, syncVars>>

CurveW(a, b, c) == [w1 |-> a, w2 |-> b, w3 |-> c]

\* weights: App.js keeps each in [0.1, 10] (setW), part_000 each in [0, 1]
\* (the sliders), App.backup.js takes the number typed; none of the setters
\* makes them sum to 1
ChartWeights(impl) ==
    CASE impl = "App.js" ->
             {CurveW(One, One, One), CurveW(One, One, Int2R(2)), CurveW(Rat(1, 2), Rat(1, 2), Rat(1, 2))}
      [] impl = "part_000" ->
             {CurveW(Rat(1, 4), Rat(1, 4), Rat(1, 2)), CurveW(Rat(1, 2), Zero, Rat(1, 2)),
              CurveW(Rat(1, 2), Rat(1, 2), Rat(1, 2)), CurveW(Rat(1, 2), Zero, Zero)}
      [] impl = "App.backup.js" ->
             {CurveW(One, One, Int2R(2)), CurveW(Rat(1, 2), Zero, Zero), CurveW(Zero, Int2R(3), One)}

\* time constants (positive; App.backup.js reads 0 as 1)
ChartTaus(impl) ==
    {Tau(1, 1, 1), Tau(1, 1, 2), Tau(2, 2, 2)}
        \cup (IF impl = "App.backup.js" THEN {Tau(0, 1, 2)} ELSE {})

ChartInputs ==
    UNION {[impl : {impl}, w : ChartWeights(impl), tau : ChartTaus(impl),
            rec : IF impl = "part_000" THEN ChartTaus(impl) ELSE {Tau(1, 1, 1)}] :
           impl \in {"App.js", "part_000", "App.backup.js"}}

ChartIdle ==
    /\ chart = "none"
    /\ chartPc = "idle"
    /\ chartT = 0
    /\ fatigueData = <<>>
    /\ recSeries = <<>>

(***************************************************************************)
(* The settings of the curve parameters: setTau / setW of src/src/App.js   *)
(* and the weight, tau and recovery-tau sliders of src/unnamed/part_000.   *)
(***************************************************************************)
\* Number(v) || d
NumberOr(v, d) == IF v \in {NaN, Zero} THEN d ELSE v

\* the number of setter operations in a run
MaxEdits == 2

Keys == {"k1", "k2", "k3"}
Triple(a, b, c) == [k1 |-> a, k2 |-> b, k3 |-> c]

\* what the user can put into a control of App.js (Number(v) of it): not a
\* number, zero, a negative number, a number above every maximum
TypedValues == {NaN, Zero, Int2R(-5), Int2R(1000)}

\* the positions of the part_000 range inputs (a range input holds a number
\* between its min and max): weights 0..1, tau and rec from their minimum
WeightPositions == {Zero, Rat(1, 2), One}
TauPositions == {One, Int2R(60)}

\* const setTau = (k, v) => setS(... tau[k] = clamp(Number(v) || 1, 1, 900))
SetTauTo(k, v) ==
    /\ confPc = "editing" /\ conf.impl = "App.js" /\ confN < MaxEdits
    /\ conf' = [conf EXCEPT !.tau[k] = clamp(NumberOr(v, One), One, Int2R(900))]
    /\ confN' = confN + 1
    /\ UNCHANGED confPc
    /\ UNCHANGED <<planVars, simVars, backupVars, appVars, chartVars, evalVars, syncVars>>

setTau == \E k \in Keys, v \in TypedValues : SetTauTo(k, v)

\* const setW = (hand, k, v) => setS(... w[k] = clamp(Number(v) || 0.1, 0.1, 10))
SetWTo(hand, k, v) ==
    /\ confPc = "editing" /\ conf.impl = "App.js" /\ confN < MaxEdits
    /\ conf' = IF hand = "L"
               THEN [conf EXCEPT !.wLeft[k] = clamp(NumberOr(v, Rat(1, 10)), Rat(1, 10), Int2R(10))]
               ELSE [conf EXCEPT !.wRight[k] = clamp(NumberOr(v, Rat(1, 10)), Rat(1, 10), Int2R(10))]
    /\ confN' = confN + 1
    /\ UNCHANGED confPc
    /\ UNCHANGED <<planVars, simVars, backupVars, appVars, chartVars, evalVars, syncVars>>

setW == \E hand \in {"L", "R"}, k \in Keys, v \in TypedValues : SetWTo(hand, k, v)

\* part_000 weight sliders: onChange={(v) => setS(... w[k] = clamp(v, 0, 1))}
PartSetW ==
    \E hand \in {"L", "R"}, k \in Keys, v \in WeightPositions :
        /\ confPc = "editing" /\ conf.impl = "part_000" /\ confN < MaxEdits
        /\ conf' = IF hand = "L"
                   THEN [conf EXCEPT !.wLeft[k] = clamp(v, Zero, One)]
                   ELSE [conf EXCEPT !.wRight[k] = clamp(v, Zero, One)]
        /\ confN' = confN + 1
        /\ UNCHANGED confPc
        /\ UNCHANGED <<planVars, simVars, backupVars, appVars, chartVars, evalVars, syncVars>>

\* part_000 tau sliders: onChange={(v) => setS(... tau[k] = Math.max(1, v))}
PartSetTau ==
    \E k \in Keys, v \in TauPositions :
        /\ confPc = "editing" /\ conf.impl = "part_000" /\ confN < MaxEdits
        /\ conf' = [conf EXCEPT !.tau[k] = RMax(One, v)]
        /\ confN' = confN + 1
        /\ UNCHANGED confPc
        /\ UNCHANGED <<planVars, simVars, backupVars, appVars, chartVars, evalVars, syncVars>>

\* part_000 recovery sliders: onChange={(v) => setS(... rec[k] = Math.max(1, v))}
PartSetRec ==
    \E k \in Keys, v \in TauPositions :
        /\ confPc = "editing" /\ conf.impl = "part_000" /\ confN < MaxEdits
        /\ conf' = [conf EXCEPT !.rec[k] = RMax(One, v)]
        /\ confN' = confN + 1
        /\ UNCHANGED confPc
        /\ UNCHANGED <<planVars, simVars, backupVars, appVars, chartVars, evalVars, syncVars>>

\* the initial S of App.js (no recovery time constants of its own)
DefaultApp ==
    [impl |-> "App.js",
     wLeft |-> Triple(One, One, One), wRight |-> Triple(One, One, One),
     tau |-> Triple(Int2R(10), Int2R(60), Int2R(240)),
     rec |-> Triple(Int2R(10), Int2R(60), Int2R(240))]

\* const defaultState of part_000
defaultState ==
    [impl |-> "part_000",
     wLeft |-> Triple(Rat(293, 1000), Zero, Rat(707, 1000)),
     wRight |-> Triple(Rat(293, 1000), Zero, Rat(707, 1000)),
     tau |-> Triple(Int2R(7), Int2R(45), Int2R(180)),
     rec |-> Triple(Int2R(30), Int2R(300), Int2R(1800))]

ConfIdle ==
    /\ conf = "none"
    /\ confPc = "idle"
    /\ confN = 0

(***************************************************************************)
(* Calls of the curve, interpolation and scale computations with arguments *)
(* of any kind (the stored state is read back from localStorage as it is,  *)
(* and the functions take what they are given).                            *)
(***************************************************************************)
\* the divisors of fAt(t, w, tau) of App.js: the weight sum, the three taus
CurveDenominators(w, tau) ==
    <<WeightSum(w.w1, w.w2, w.w3), TauFloor(tau.t1), TauFloor(tau.t2), TauFloor(tau.t3)>>

\* the divisors of scaleFromHistory: each denom that passes the guard, and
\* the count n when it is not 0
RECURSIVE ScaleDenominators(_, _, _, _)
ScaleDenominators(pts, i, w, tau) ==
    IF i > Len(pts)
    THEN LET acc == ScaleLoop(pts, 1, w, tau, Zero, 0)
         IN  IF acc.n # 0 THEN <<Int2R(acc.n)>> ELSE <<>>
    ELSE (IF DenomUsable(fAt(pts[i].t, w, tau)) THEN <<fAt(pts[i].t, w, tau)>> ELSE <<>>)
             \o ScaleDenominators(pts, i + 1, w, tau)

\* fAt / Rof / triShape and recoveryFrac applied to t
EvalCurve ==
    /\ evalPc = "curve"
    /\ evalF' = FatigueOf(evalIn, evalIn.t)
    /\ evalR' = (IF evalIn.impl = "App.backup.js" THEN Null ELSE RecoveryOf(evalIn, evalIn.t))
    /\ denoms' = (IF evalIn.impl = "App.js"
                  THEN denoms \o CurveDenominators(evalIn.w, evalIn.tau)
                  ELSE denoms)
    /\ evalPc' = (IF evalIn.impl = "App.js" THEN "interp" ELSE "done")
    /\ UNCHANGED <<evalIn, evalRatio>>
    /\ UNCHANGED <<planVars, simVars, backupVars, appVars, chartVars, confVars, syncVars>>

\* step 4 of ratioLoadForT on the bracket a, b:
\* if (a.t <= targetT && targetT <= b.t) r = (targetT - a.t) / Math.max(eps, b.t - a.t)
EvalInterp ==
    /\ evalPc = "interp"
    /\ denoms' = (IF RLe(evalIn.a.t, evalIn.T) /\ RLe(evalIn.T, evalIn.b.t)
                  THEN Append(denoms, BracketWidth(evalIn.a, evalIn.b))
                  ELSE denoms)
    /\ evalPc' = "scale"
    /\ UNCHANGED <<evalIn, evalF, evalR, evalRatio>>
    /\ UNCHANGED <<planVars, simVars, backupVars, appVars, chartVars, confVars, syncVars>>

\* scaleFromHistory(pts, w, tau, 0)
EvalScale ==
    /\ evalPc = "scale"
    /\ denoms' = denoms \o ScaleDenominators(evalIn.pts, 1, evalIn.w, evalIn.tau)
    /\ evalPc' = "ratio"
    /\ UNCHANGED <<evalIn, evalF, evalR, evalRatio>>
    /\ UNCHANGED <<planVars, simVars, backupVars, appVars, chartVars, confVars, syncVars>>

\* ratioLoadForT(T, pts)
EvalRatio ==
    /\ evalPc = "ratio"
    /\ evalRatio' = ratioLoadForT(evalIn.T[1], evalIn.pts)
    /\ evalPc' = "done"
    /\ UNCHANGED <<evalIn, denoms, evalF, evalR>>
    /\ UNCHANGED <<planVars, simVars, backupVars, appVars, chartVars, confVars, syncVars>>

Point(t, l) == [t |-> Int2R(t), L |-> Int2R(l)]

\* weights: valid ones, all zero, summing to zero, summing to less
EvalWeights ==
    {CurveW(One, One, Int2R(2)), CurveW(Zero, Zero, Zero),
     CurveW(Rat(1, 4), Rat(-1, 4), Zero), CurveW(Rat(-1, 4), Zero, Zero)}

\* arguments of App.js with t >= 0: weights and taus of any kind, brackets
\* of different and of equal duration, observations the curve maps to 0
DegenerateInputs ==
    [impl : {"App.js"}, w : EvalWeights, tau : {Tau(1, 1, 2), Tau(0, 1, 2), Tau(0, 0, 0)},
     rec : {Tau(1, 1, 1)}, t : {0, 2},
     a : {Point(2, 64)}, b : {Point(4, 16), Point(2, 16)}, T : {Int2R(2)},
     pts : {<<Obs(2, 64)>>, <<Obs(2, 16), Obs(2 * UnderflowAt, 32)>>}]

\* arguments with valid curve parameters and a time of either sign
SignedTimeInputs ==
    UNION {[impl : {impl}, w : {CurveW(Rat(1, 4), Rat(1, 4), Rat(1, 2))},
            tau : {Tau(1, 1, 1), Tau(1, 1, 2)}, rec : {Tau(1, 1, 2)}, t : {-4, -2, 0, 2},
            a : {Point(2, 64)}, b : {Point(4, 16)}, T : {Int2R(2)}, pts : {<<Obs(2, 64)>>}] :
           impl \in {"App.js", "part_000", "App.backup.js"}}

\* a load below eps (0.5e-9)
TinyLoad == Rat(1, 2000000000)

\* arguments with two observations of a load below eps and a target
\* duration between theirs
TinyLoadInputs ==
    [impl : {"App.js"}, w : {CurveW(Rat(1, 4), Rat(1, 4), Rat(1, 2))}, tau : {Tau(1, 1, 1)},
     rec : {Tau(1, 1, 1)}, t : {0, 2},
     a : {Point(2, 64)}, b : {Point(4, 16)}, T : {Int2R(2), Int2R(4), Int2R(6)},
     pts : {<<[t |-> 2, L |-> TinyLoad], [t |-> 6, L |-> TinyLoad]>>}]

\* arguments with two loads observed at one duration, given after a longer one
RepeatedDurationInputs ==
    [impl : {"App.js"}, w : {CurveW(Rat(1, 4), Rat(1, 4), Rat(1, 2))}, tau : {Tau(1, 1, 1)},
     rec : {Tau(1, 1, 1)}, t : {0, 2},
     a : {Point(2, 64)}, b : {Point(4, 16)}, T : {Int2R(2), Int2R(4)},
     pts : {<<Obs(4, 16), Obs(2, 64), Obs(2, 16)>>, <<Obs(2, 16), Obs(2, 64), Obs(2, 0)>>}]

EvalInputs ==
    DegenerateInputs \cup SignedTimeInputs \cup TinyLoadInputs \cup RepeatedDurationInputs

EvalIdle ==
    /\ evalIn = "none"
    /\ evalPc = "idle"
    /\ denoms = <<>>
    /\ evalF = Null
    /\ evalR = Null
    /\ evalRatio = Null

(***************************************************************************)
(* The sessions tab of src/src/App.js: adding, deleting and clearing       *)
(* records, the cloud insert of an added record, and the cloud history     *)
(* load that follows every change of the signed-in user.  The awaits of    *)
(* the async functions are the points where the others interleave.         *)
(***************************************************************************)
\* the number of records added in a run
MaxAdds == 1

\* the form's four numbers, as Number(form.x) reads them
Form(ll, ld, rl, rd) ==
    [leftLoad |-> Int2R(ll), leftDur |-> Int2R(ld), rightLoad |-> Int2R(rl), rightDur |-> Int2R(rd)]

\* forms: the left hand complete, a load on the left with a duration on the
\* right, and nothing entered
Forms == {Form(64, 2, 0, 0), Form(64, 0, 0, 2), Form(0, 0, 0, 0)}

\* const canAdd = (leftLoad > 0 || rightLoad > 0) && (leftDur > 0 || rightDur > 0)
canAdd(form) ==
    /\ RLt(Zero, form.leftLoad) \/ RLt(Zero, form.rightLoad)
    /\ RLt(Zero, form.leftDur) \/ RLt(Zero, form.rightDur)

\* const row = { id: uid(), ..., leftLoad: Number(form.leftLoad) || 0, ... }
\* (rec names the record whatever its id; id tells uid() from the cloud's id)
RowOf(form, n, id) ==
    [rec |-> n, id |-> id,
     leftLoad |-> NumberOr0(form.leftLoad), leftDur |-> NumberOr0(form.leftDur),
     rightLoad |-> NumberOr0(form.rightLoad), rightDur |-> NumberOr0(form.rightDur)]

\* async function onAddSession(), up to its await
onAddSession ==
    /\ syncPc = "running"
    /\ Cardinality(added) < MaxAdds
    /\ \E form \in Forms :
           /\ canAdd(form)
           /\ LET n == Cardinality(added) + 1
                  row == RowOf(form, n, "local")
              IN  /\ localHist' = <<row>> \o localHist
                  /\ added' = added \cup {n}
                  /\ inserts' = (IF user
                                 THEN inserts \cup {[rec |-> n, st |-> "sent", row |-> row]}
                                 ELSE inserts)
    /\ UNCHANGED <<user, cloud, loadPc, loadData, gone, syncPc>>
    /\ UNCHANGED <<planVars, simVars, backupVars, appVars, chartVars, confVars, evalVars>>

\* supabase.from("sessions").insert(payload): the table takes the row
InsertCommit ==
    /\ \E i \in inserts :
           /\ i.st = "sent"
           /\ cloud' = <<[i.row EXCEPT !.id = "cloud"]>> \o cloud
           /\ inserts' = (inserts \ {i}) \cup {[i EXCEPT !.st = "committed"]}
    /\ UNCHANGED <<user, localHist, loadPc, loadData, added, gone, syncPc>>
    /\ UNCHANGED <<planVars, simVars, backupVars, appVars, chartVars, confVars, evalVars>>

\* the await of the insert returns data: the row of the history that still
\* has the id of uid() takes the cloud's id
InsertReturn ==
    /\ \E i \in inserts :
           /\ i.st = "committed"
           /\ localHist' = [k \in 1..Len(localHist) |->
                                IF localHist[k].rec = i.rec /\ localHist[k].id = "local"
                                THEN [localHist[k] EXCEPT !.id = "cloud"]
                                ELSE localHist[k]]
           /\ inserts' = inserts \ {i}
    /\ UNCHANGED <<user, cloud, loadPc, loadData, added, gone, syncPc>>
    /\ UNCHANGED <<planVars, simVars, backupVars, appVars, chartVars, confVars, evalVars>>

\* the await of the insert returns an error: nothing is changed
InsertError ==
    /\ \E i \in inserts :
           /\ i.st = "sent"
           /\ inserts' = inserts \ {i}
    /\ UNCHANGED <<user, localHist, cloud, loadPc, loadData, added, gone, syncPc>>
    /\ UNCHANGED <<planVars, simVars, backupVars, appVars, chartVars, confVars, evalVars>>

\* onAuthStateChange: setUser(s?.user ?? null); with a user the effect on
\* [user] issues the select of the cloud history (one load at a time here)
AuthChange ==
    /\ syncPc = "running"
    /\ \E u \in BOOLEAN :
           /\ user' = u
           /\ IF u
              THEN loadPc = "none" /\ loadPc' = "issued"
              ELSE loadPc' = loadPc
    /\ UNCHANGED <<localHist, cloud, inserts, loadData, added, gone, syncPc>>
    /\ UNCHANGED <<planVars, simVars, backupVars, appVars, chartVars, confVars, evalVars>>

\* supabase.from("sessions").select("*").order("created_at", desc): the
\* table is read
LoadSelect ==
    /\ loadPc = "issued"
    /\ loadData' = cloud
    /\ loadPc' = "answered"
    /\ UNCHANGED <<user, localHist, cloud, inserts, added, gone, syncPc>>
    /\ UNCHANGED <<planVars, simVars, backupVars, appVars, chartVars, confVars, evalVars>>

\* the await of the select returns data: setS((s) => ({ ...s, history: mapped }))
LoadReturn ==
    /\ loadPc = "answered"
    /\ localHist' = loadData
    /\ loadPc' = "none"
    /\ loadData' = <<>>
    /\ UNCHANGED <<user, cloud, inserts, added, gone, syncPc>>
    /\ UNCHANGED <<planVars, simVars, backupVars, appVars, chartVars, confVars, evalVars>>

\* the await of the select returns an error: console.warn(error); return
LoadError ==
    /\ loadPc = "issued"
    /\ loadPc' = "none"
    /\ UNCHANGED <<user, localHist, cloud, inserts, loadData, added, gone, syncPc>>
    /\ UNCHANGED <<planVars, simVars, backupVars, appVars, chartVars, confVars, evalVars>>

SameRow(a, b) == a.rec = b.rec /\ a.id = b.id

\* the rows of h the predicate keeps (the predicate is given as a set)
RECURSIVE KeepRows(_, _)
KeepRows(h, keep) ==
    IF h = <<>> THEN <<>>
    ELSE (IF Head(h) \in keep THEN <<Head(h)>> ELSE <<>>) \o KeepRows(Tail(h), keep)

\* function onDeleteRow(id), confirmed: the row leaves the history; signed
\* in and with a cloud id, the delete of the cloud row is built (the request
\* is not awaited: the row of the table goes or stays)
onDeleteRow ==
    /\ syncPc = "running"
    /\ \E k \in 1..Len(localHist) :
           LET row == localHist[k]
           IN  /\ localHist' = KeepRows(localHist,
                                        {r \in {localHist[j] : j \in 1..Len(localHist)} : ~SameRow(r, row)})
               /\ gone' = gone \cup {row.rec}
               /\ \/ cloud' = cloud
                  \/ /\ user /\ row.id = "cloud"
                     /\ cloud' = KeepRows(cloud, {r \in {cloud[j] : j \in 1..Len(cloud)} : ~SameRow(r, row)})
    /\ UNCHANGED <<user, inserts, loadPc, loadData, added, syncPc>>
    /\ UNCHANGED <<planVars, simVars, backupVars, appVars, chartVars, confVars, evalVars>>

\* function onClearAll(), confirmed
onClearAll ==
    /\ syncPc = "running"
    /\ localHist # <<>>
    /\ localHist' = <<>>
    /\ gone' = gone \cup {localHist[k].rec : k \in 1..Len(localHist)}
    /\ UNCHANGED <<user, cloud, inserts, loadPc, loadData, added, syncPc>>
    /\ UNCHANGED <<planVars, simVars, backupVars, appVars, chartVars, confVars, evalVars>>

SyncIdle ==
    /\ user = FALSE
    /\ localHist = <<>>
    /\ cloud = <<>>
    /\ inserts = {}
    /\ loadPc = "none"
    /\ loadData = <<>>
    /\ added = {}
    /\ gone = {}
    /\ syncPc = "idle"

(***************************************************************************)
(* Inputs of part_000 and App.backup.js, and the specification.            *)
(***************************************************************************)
MaxSimSets == 2
MaxReps == 2

SimW(a, b, c) == [w1 |-> a, w2 |-> b, w3 |-> c]

SimRequests ==
    [max : {Zero, Int2R(64)}, sets : 0..MaxSimSets, repsPerSet : 0..MaxReps,
     T : {1, 2}, restRep : {0, 1}, restSet : {0, 1},
     w : {SimW(Rat(1, 2), Zero, Rat(1, 2)), SimW(Rat(1, 4), Rat(1, 4), Rat(1, 2))},
     tau : {[tau1 |-> 1, tau2 |-> 1, tau3 |-> 1]},
     rec : {[r1 |-> 1, r2 |-> 1, r3 |-> 1]},
     anchor : {"planEnd", "endOfEachSet"}]

\* the planner form of App.backup.js: sets (at least 1), rest in seconds, and
\* the fitted exponent (fitBeta returns a number in [0.2, 2.5])
MaxBackupReps == 2
BackupForms == [reps : 1..MaxBackupReps, rest : {0, 90, 180}, beta : {Rat(7, 10)}]

EstimateChoices == {Null, Int2R(10), Rat(41, 4), Rat(201, 20), Int2R(64)}

PlanIdle ==
    /\ scale0 = Zero
    /\ base = Zero
    /\ s = 0
    /\ currentCapacity = One
    /\ out = <<>>

SimIdle ==
    /\ C = One
    /\ capacities = <<>>
    /\ simS = 0
    /\ simR = 0
    /\ recLoad = Zero

BackupIdle ==
    /\ estimates = [model |-> Null, ratio |-> Null]
    /\ combined = Null
    /\ bkPc = "idle"
    /\ bkForm = "none"
    /\ bkPlan = <<>>

\* a call of planSets (App.js)
InitPlan ==
    /\ req \in PlanRequests
    /\ pc = "start"
    /\ PlanIdle
    /\ simReq = "none" /\ simPc = "idle" /\ SimIdle
    /\ BackupIdle
    /\ history = <<>> /\ cfg = "none" /\ appPc = "idle" /\ AppIdle
    /\ ChartIdle
    /\ ConfIdle
    /\ EvalIdle
    /\ SyncIdle

\* a call of recommendLoadForPlan (part_000)
InitSim ==
    /\ simReq \in SimRequests
    /\ simPc = "start"
    /\ SimIdle
    /\ req = "none" /\ pc = "idle" /\ PlanIdle
    /\ BackupIdle
    /\ history = <<>> /\ cfg = "none" /\ appPc = "idle" /\ AppIdle
    /\ ChartIdle
    /\ ConfIdle
    /\ EvalIdle
    /\ SyncIdle

\* an evaluation of combinedL (App.backup.js)
InitBackup ==
    /\ estimates \in [model : EstimateChoices, ratio : EstimateChoices]
    /\ combined = Null
    /\ bkPc = "start"
    /\ bkForm \in BackupForms
    /\ bkPlan = <<>>
    /\ req = "none" /\ pc = "idle" /\ PlanIdle
    /\ simReq = "none" /\ simPc = "idle" /\ SimIdle
    /\ history = <<>> /\ cfg = "none" /\ appPc = "idle" /\ AppIdle
    /\ ChartIdle
    /\ ConfIdle
    /\ EvalIdle
    /\ SyncIdle

\* a render of the App component (App.js)
InitApp ==
    /\ history \in Histories
    /\ cfg \in AppConfigs
    /\ appPc = "start"
    /\ AppIdle
    /\ req = "none" /\ pc = "idle" /\ PlanIdle
    /\ simReq = "none" /\ simPc = "idle" /\ SimIdle
    /\ BackupIdle
    /\ ChartIdle
    /\ ConfIdle
    /\ EvalIdle
    /\ SyncIdle

\* the chart loops over one of the curve implementations
InitChart ==
    /\ chart \in ChartInputs
    /\ chartPc = "fatigue"
    /\ chartT = 0
    /\ fatigueData = <<>>
    /\ recSeries = <<>>
    /\ req = "none" /\ pc = "idle" /\ PlanIdle
    /\ simReq = "none" /\ simPc = "idle" /\ SimIdle
    /\ BackupIdle
    /\ history = <<>> /\ cfg = "none" /\ appPc = "idle" /\ AppIdle
    /\ ConfIdle
    /\ EvalIdle
    /\ SyncIdle

\* the settings panel, from the default state of App.js or of part_000
InitConf ==
    /\ conf \in {DefaultApp, defaultState}
    /\ confPc = "editing"
    /\ confN = 0
    /\ req = "none" /\ pc = "idle" /\ PlanIdle
    /\ simReq = "none" /\ simPc = "idle" /\ SimIdle
    /\ BackupIdle
    /\ history = <<>> /\ cfg = "none" /\ appPc = "idle" /\ AppIdle
    /\ ChartIdle
    /\ EvalIdle
    /\ SyncIdle

\* a call of the curve functions with arguments of any kind
InitEval ==
    /\ evalIn \in EvalInputs
    /\ evalPc = "curve"
    /\ denoms = <<>>
    /\ evalF = Null
    /\ evalR = Null
    /\ evalRatio = Null
    /\ req = "none" /\ pc = "idle" /\ PlanIdle
    /\ simReq = "none" /\ simPc = "idle" /\ SimIdle
    /\ BackupIdle
    /\ history = <<>> /\ cfg = "none" /\ appPc = "idle" /\ AppIdle
    /\ ChartIdle
    /\ ConfIdle
    /\ SyncIdle

\* the sessions tab of App.js, signed out or signed in, with an empty history
InitSync ==
    /\ user \in BOOLEAN
    /\ localHist = <<>>
    /\ cloud = <<>>
    /\ inserts = {}
    /\ loadPc = "none"
    /\ loadData = <<>>
    /\ added = {}
    /\ gone = {}
    /\ syncPc = "running"
    /\ req = "none" /\ pc = "idle" /\ PlanIdle
    /\ simReq = "none" /\ simPc = "idle" /\ SimIdle
    /\ BackupIdle
    /\ history = <<>> /\ cfg = "none" /\ appPc = "idle" /\ AppIdle
    /\ ChartIdle
    /\ ConfIdle
    /\ EvalIdle

Init == InitPlan \/ InitSim \/ InitBackup \/ InitApp \/ InitChart \/ InitConf \/ InitEval
           \/ InitSync

Next ==
    \/ PlanEnter \/ PlanRep \/ PlanLoopExit \/ PlanCap
    \/ SimEnter \/ SimRep \/ SimNextSet \/ SimReturn \/ Recommend
    \/ Combine \/ BackupPlan
    \/ AppPoints \/ AppScales \/ AppRecs \/ AppPlans
    \/ ChartFatigue \/ ChartRecovery
    \/ setTau \/ setW \/ PartSetW \/ PartSetTau \/ PartSetRec
    \/ EvalCurve \/ EvalInterp \/ EvalScale \/ EvalRatio
    \/ onAddSession \/ InsertCommit \/ InsertReturn \/ InsertError
    \/ AuthChange \/ LoadSelect \/ LoadReturn \/ LoadError
    \/ onDeleteRow \/ onClearAll

Spec == Init /\ [][Next]_vars

(***************************************************************************)
(* Properties.                                                             *)
(***************************************************************************)
Max0(n) == IF n > 0 THEN n ELSE 0
InRange(x, lo, hi) == RLe(lo, x) /\ RLe(x, hi)
PlanRan == pc \in {"loop", "cap", "done"}
ModelEst(r) == modelLoadForT(r.TUT, r.pts, r.w, r.tau, r.manualScale)
RatioEst(r) == ratioLoadForT(r.TUT, r.pts)

\* the capacity of planSets stays within [0.1, 1.0] (the App.js half of C1)
PlanCapacityInRange == InRange(currentCapacity, CapFloor, One)

\* C1: in every plan simulation the capacity starts at 1.0 and after every
\* rep-and-rest transition stays within [capFloor, 1.0], capFloor = 0.1:
\* in planSets (currentCapacity) and in simulateCapacityPlan (C)
C1_CapacityWithinFloorAndOne ==
    /\ pc = "loop" /\ s = 1 => currentCapacity = One
    /\ simPc = "loop" /\ capacities = <<>> => C = One
    /\ PlanCapacityInRange
    /\ InRange(C, CapFloor, One)

\* C2: when planSets returns, every load after the first is at most
\* load_0 * (1 + capDropFraction), for any (also negative) capDropFraction
C2_LaterLoadsCapped ==
    pc = "done" =>
        \A i \in 2..Len(out) : RLe(out[i], RMul(out[1], RAdd(One, req.capDrop)))

\* a plan with several sets in which the cap lowered the second load
C2_Witness ==
    /\ pc = "done"
    /\ Len(out) > 1
    /\ RLt(Zero, out[1])
    /\ out[2] = RMul(out[1], RAdd(One, req.capDrop))
    /\ RLt(out[2], RMul(out[1], fAt(req.TUT, req.w, req.tau)))

\* planSets: one entry per iteration, and max(sets, 0) entries at the end
PlanCounts ==
    /\ pc = "loop" => Len(out) = s - 1 /\ s - 1 <= Max0(req.sets)
    /\ pc = "cap" => s - 1 = Max0(req.sets)
    /\ pc \in {"cap", "done"} => Len(out) = Max0(req.sets)

\* simulateCapacityPlan: one entry per iteration, sets * repsPerSet at the end
SimCounts ==
    /\ simPc = "loop" /\ simS < simReq.sets =>
           Len(capacities) = simS * simReq.repsPerSet + simR
    /\ simPc \in {"simulated", "done"} =>
           Len(capacities) = simReq.sets * simReq.repsPerSet

\* the number of steps a call still has to take
PlanRemaining ==
    CASE pc = "start" -> Max0(req.sets) + 3
      [] pc = "loop" -> Max0(req.sets) - (s - 1) + 2
      [] pc = "cap" -> 1
      [] OTHER -> 0

SimRemaining ==
    CASE simPc = "start" -> Max0(simReq.sets) * (Max0(simReq.repsPerSet) + 1) + 3
      [] simPc = "loop" ->
           Max0(simReq.sets - simS) * (Max0(simReq.repsPerSet) + 1) - simR + 2
      [] simPc = "simulated" -> 1
      [] OTHER -> 0

\* C3: the simulation loop runs exactly sets * repsPerSet iterations
\* (repsPerSet = 1 in planSets), producing one entry per iteration; it is
\* not left while iterations remain, whatever the capacity and loads; and
\* every call terminates: each step lowers the number of steps that remain,
\* which is never negative and is 0 only when the call has returned
C3_ExactIterationsAndTermination ==
    /\ [](PlanCounts /\ SimCounts)
    /\ [][pc = "loop" /\ s <= req.sets => pc' = "loop" /\ Len(out') = Len(out) + 1]_vars
    /\ [][simPc = "loop" /\ Len(capacities) < simReq.sets * simReq.repsPerSet
              => simPc' = "loop"]_vars
    /\ [](PlanRemaining >= 0 /\ SimRemaining >= 0)
    /\ [][PlanRemaining' + SimRemaining' < PlanRemaining + SimRemaining
              \/ bkPc' # bkPc \/ appPc' # appPc \/ chartPc # "idle" \/ confPc # "idle"
            \/ evalPc # "idle" \/ syncPc # "idle"]_vars

\* a finished plan of MaxSets sets whose capacity reached the floor on the way
C3_Witness ==
    /\ pc = "done"
    /\ Len(out) = MaxSets
    /\ RLt(Zero, scale0)
    /\ currentCapacity = CapFloor

\* a finished simulation of MaxSimSets sets of MaxReps reps
C3_WitnessSim ==
    /\ simPc = "done"
    /\ Len(capacities) = MaxSimSets * MaxReps
    /\ RLt(C, CapFloor)

\* C4: a degenerate plan request never fails: zero or negative sets or reps
\* give an empty sequence, a zero scale or base gives all-zero loads, and no
\* returned load is NaN / undefined
C4_DegenerateRequestNeverFails ==
    /\ pc = "done" /\ req.sets <= 0 => out = <<>>
    /\ pc = "done" /\ (scale0 = Zero \/ base = Zero) =>
           \A i \in 1..Len(out) : out[i] = Zero
    /\ pc = "done" => \A i \in 1..Len(out) : out[i][2] # 0
    /\ simPc = "done" => recLoad[2] # 0

\* the App.js half of C4 (planSets alone)
PlanDegenerateOk ==
    /\ pc = "done" /\ req.sets <= 0 => out = <<>>
    /\ pc = "done" /\ (scale0 = Zero \/ base = Zero) =>
           \A i \in 1..Len(out) : out[i] = Zero
    /\ pc = "done" => \A i \in 1..Len(out) : out[i][2] # 0

C6_NonIncreasingUnderZeroRest ==
    pc = "done" /\ req.restSec = 0 =>
        \A i \in 1..(Len(out) - 1) : RLe(out[i + 1], out[i])

\* a zero-rest plan of MaxSets sets whose loads fall strictly until the
\* capacity floor is reached
C6_Witness ==
    /\ pc = "done"
    /\ req.restSec = 0
    /\ Len(out) = MaxSets
    /\ req.capDrop = Rat(3, 20)
    /\ RLt(out[2], out[1])
    /\ RLt(out[3], out[2])

\* C7: under anchor "model" planSets returns the same loads with precise =
\* true as with precise = false
C7_PreciseEqualsBaseForModelAnchor ==
    pc = "done" /\ req.anchor = "model" =>
        out = planSets([req EXCEPT !.precise = ~req.precise])

\* a finished multi-set plan under anchor "model" with loads that differ
\* from set to set and a ratio estimate different from the model's
C7_Witness ==
    /\ pc = "done"
    /\ req.anchor = "model"
    /\ Len(out) = MaxSets
    /\ RLt(out[2], out[1])
    /\ RatioEst(req) # Zero
    /\ RatioEst(req) # ModelEst(req)

\* the mean of the available (non-null, non-zero) estimates; absent if none
MeanOfAvailable(m, r, absent) ==
    IF m # absent /\ r # absent THEN RDiv(RAdd(m, r), Int2R(2))
    ELSE IF m # absent THEN m
    ELSE IF r # absent THEN r
    ELSE absent

\* C8: under policy "average" the recommendation is the arithmetic mean of
\* the model and ratio estimates when both are available, the available one
\* when only one is, and null / no estimate when neither is: for combinedL
\* of App.backup.js and for the base of planSets
C8_AverageIsArithmeticMean ==
    /\ bkPc = "done" => combined = MeanOfAvailable(estimates.model, estimates.ratio, Null)
    /\ pc = "loop" /\ req.anchor = "average" =>
           base = MeanOfAvailable(ModelEst(req), RatioEst(req), Zero)

\* the estimate the "min" policy is to select: the smaller of two available
\* estimates, else the available one (0: none)
MinOfAvailable(m, r) ==
    IF m # Zero /\ r # Zero THEN RMin(m, r)
    ELSE IF m # Zero THEN m
    ELSE r

\* C9: under policy "min" the base load (the first load of a plan with
\* precise = false) is the smaller of the model and ratio estimates when both
\* are available and the available one when the other is absent
C9_MinFallsBackToAvailable ==
    pc = "done" /\ req.anchor = "min" /\ ~req.precise /\ req.sets >= 1 =>
        out[1] = MinOfAvailable(ModelEst(req), RatioEst(req))

AppRan == appPc \in {"points", "scales", "recs", "done"}

\* the records of h whose duration and load on the given hand are d and l
RecordsWith(h, hand, d, l) ==
    {i \in 1..Len(h) :
        IF hand = "L" THEN h[i].leftDur = d /\ h[i].leftLoad = l
        ELSE h[i].rightDur = d /\ h[i].rightLoad = l}

\* pts holds one observation per record of h with duration > 0 and load > 0
\* on the given hand, and nothing else
OnePerUsableRecord(pts, h, hand) ==
    /\ \A i \in 1..Len(pts) : pts[i].t > 0 /\ RLt(Zero, pts[i].L)
    /\ \A i \in 1..Len(pts) :
           Cardinality({j \in 1..Len(pts) : pts[j] = pts[i]})
               = Cardinality(RecordsWith(h, hand, Int2R(pts[i].t), pts[i].L))
    /\ \A i \in 1..Len(h) :
           LET d == IF hand = "L" THEN h[i].leftDur ELSE h[i].rightDur
               l == IF hand = "L" THEN h[i].leftLoad ELSE h[i].rightLoad
           IN  RLt(Zero, d) /\ RLt(Zero, l) =>
                   \E j \in 1..Len(pts) : Int2R(pts[j].t) = d /\ pts[j].L = l

\* C11: historyPoints(history, side) returns exactly one observation (that
\* side's duration and load) for each record whose duration > 0 and load > 0
\* on that side and none for any other record, and it leaves the history and
\* its records unchanged
C11_OneObservationPerUsableRecord ==
    /\ [](AppRan => OnePerUsableRecord(ptsL, history, "L")
                    /\ OnePerUsableRecord(ptsR, history, "R"))
    /\ [][appPc = "start" => history' = history]_vars

\* a history of MaxHist records, given longest first, with both right-hand
\* entries usable and only one left-hand entry usable
C11_Witness ==
    /\ appPc = "points"
    /\ Len(history) = MaxHist
    /\ Len(ptsL) = 1
    /\ Len(ptsR) = 2
    /\ ptsR[1].t < ptsR[2].t
    /\ RLt(history[2].rightDur, history[1].rightDur)

\* the histories that differ from h in the other hand's fields of one record
\* (every history is an initial state, so any change of the other hand's
\* fields is a chain of these)
OtherHandVariants(h, hand) ==
    IF hand = "L"
    THEN {[h EXCEPT ![i] = [h[i] EXCEPT !.rightDur = f.dur, !.rightLoad = f.load]] :
             i \in 1..Len(h), f \in RightSides}
    ELSE {[h EXCEPT ![i] = [h[i] EXCEPT !.leftDur = f.dur, !.leftLoad = f.load]] :
             i \in 1..Len(h), f \in LeftSides}

\* what a render computes for one hand from history h
HandResults(h, hand) ==
    LET pts == historyPoints(h, hand)
        w == IF hand = "L" THEN cfg.wLeft ELSE cfg.wRight
        ms == IF hand = "L" THEN cfg.manualScaleL ELSE cfg.manualScaleR
        plan == IF hand = "L" THEN cfg.planL ELSE cfg.planR
    IN  [pts |-> pts,
         scale |-> scaleFromHistory(pts, w, cfg.tau, ms),
         rec |-> recs(pts, w, cfg.tau, ms, cfg.targets),
         loads |-> planSets(PlanArgs(plan, pts, w, cfg.tau, ms))]

AppRendering == appPc \in {"start", "points", "scales", "recs"}

\* C12: the two hands are independent: the observations, scale, recommended
\* loads and plan computed for one hand are the same for every history that
\* differs only in the other hand's duration / load fields, and computing
\* them changes neither the history nor the configuration
C12_SidesIndependent ==
    /\ [](appPc = "done" =>
            /\ \A h \in OtherHandVariants(history, "L") :
                   HandResults(h, "L") =
                       [pts |-> ptsL, scale |-> scaleL, rec |-> recL, loads |-> loadsPlanL]
            /\ \A h \in OtherHandVariants(history, "R") :
                   HandResults(h, "R") =
                       [pts |-> ptsR, scale |-> scaleR, rec |-> recR, loads |-> loadsPlanR])
    /\ [][AppRendering => history' = history /\ cfg' = cfg]_vars

\* a finished render over MaxHist records where both hands have observations
\* and the two hands' observations, scales and plans differ
C12_Witness ==
    /\ appPc = "done"
    /\ Len(history) = MaxHist
    /\ Len(ptsL) = MaxHist
    /\ Len(ptsR) >= 1
    /\ ptsL # ptsR
    /\ scaleL # scaleR
    /\ RLt(Zero, scaleL)
    /\ loadsPlanL # <<>>
    /\ loadsPlanL # loadsPlanR

\* the observations whose fatigue value exceeds epsilon
Qualifying(pts, w, tau) == {i \in 1..Len(pts) : RLt(eps, fAt(pts[i].t, w, tau))}

\* the sum of load_i / fatigue(duration_i) over the observations I
RECURSIVE SumOfRatios(_, _, _, _)
SumOfRatios(pts, w, tau, I) ==
    IF I = {} THEN Zero
    ELSE LET i == CHOOSE j \in I : TRUE
         IN  RAdd(RDiv(pts[i].L, fAt(pts[i].t, w, tau)),
                  SumOfRatios(pts, w, tau, I \ {i}))

\* the manual override if > 0, else the unweighted mean over the qualifying
\* observations, else 0
ExpectedScale(pts, w, tau, manualScale) ==
    LET Q == Qualifying(pts, w, tau)
    IN  IF RLt(Zero, manualScale) THEN manualScale
        ELSE IF Q = {} THEN Zero
        ELSE RDiv(SumOfRatios(pts, w, tau, Q), Int2R(Cardinality(Q)))

AppScaled == appPc \in {"scales", "recs", "done"}

\* C13: scaleFromHistory returns the manual override whenever it is > 0;
\* otherwise the unweighted mean of load_i / fatigue(duration_i) over exactly
\* the observations whose fatigue value exceeds epsilon (a single observation
\* (t, L) yields L / fatigue(t)), and 0 when no observation qualifies
C13_ScaleIsOverrideOrMean ==
    /\ PlanRan => scale0 = ExpectedScale(req.pts, req.w, req.tau, req.manualScale)
    /\ PlanRan /\ Len(req.pts) = 1 /\ ~RLt(Zero, req.manualScale)
         /\ RLt(eps, fAt(req.pts[1].t, req.w, req.tau)) =>
           scale0 = RDiv(req.pts[1].L, fAt(req.pts[1].t, req.w, req.tau))
    /\ AppScaled =>
           /\ scaleL = ExpectedScale(ptsL, cfg.wLeft, cfg.tau, cfg.manualScaleL)
           /\ scaleR = ExpectedScale(ptsR, cfg.wRight, cfg.tau, cfg.manualScaleR)

\* no override, two observations of which only the first qualifies: the scale
\* is that observation's load / fatigue
C13_Witness ==
    /\ PlanRan
    /\ req.manualScale = Zero
    /\ Len(req.pts) = 2
    /\ Qualifying(req.pts, req.w, req.tau) = {1}
    /\ RLt(Zero, scale0)
    /\ scale0 = RDiv(req.pts[1].L, fAt(req.pts[1].t, req.w, req.tau))

\* an override in force over a history with observations
C13_WitnessOverride ==
    /\ AppScaled
    /\ Len(ptsR) = MaxHist
    /\ RLt(Zero, cfg.manualScaleR)
    /\ scaleR = cfg.manualScaleR

AppRecsDone == appPc \in {"recs", "done"}

\* the three model recommendations of rec are scale * fatigue(target), all 0
\* for scale = 0 and strictly decreasing in the target for scale > 0
ModelLoadsAsSpecified(rec, scale, w) ==
    LET T == <<cfg.targets.power, cfg.targets.strength, cfg.targets.endurance>>
        m == <<rec.model20, rec.model60, rec.model180>>
    IN  /\ \A i \in 1..3 : m[i] = RMul(scale, fAt(T[i], w, cfg.tau))
        /\ scale = Zero => \A i \in 1..3 : m[i] = Zero
        /\ RLt(Zero, scale) =>
               \A i, j \in 1..3 : T[i] < T[j] => RLt(m[j], m[i])

\* C14: modelLoad(T) equals scale * fatigue(T): it is 0 when scale = 0, and
\* for scale > 0 it is strictly decreasing in the target duration T
C14_ModelLoadIsScaleTimesFatigue ==
    AppRecsDone =>
        /\ ModelLoadsAsSpecified(recL, scaleL, cfg.wLeft)
        /\ ModelLoadsAsSpecified(recR, scaleR, cfg.wRight)

\* a positive learned scale and three distinct, strictly falling model loads
C14_Witness ==
    /\ AppRecsDone
    /\ cfg.manualScaleL = Zero
    /\ RLt(Zero, scaleL)
    /\ cfg.targets.power < cfg.targets.strength
    /\ cfg.targets.strength < cfg.targets.endurance
    /\ RLt(recL.model60, recL.model20)
    /\ RLt(recL.model180, recL.model60)
    /\ RLt(Zero, recL.model180)

\* no observations and no override: scale 0 and model loads 0
C14_WitnessZero ==
    /\ AppRecsDone
    /\ scaleL = Zero
    /\ recL.model20 = Zero /\ recL.model180 = Zero
    /\ Len(history) = MaxHist

\* no record of h has duration > 0 and load > 0 on the given hand
NoUsable(h, hand) ==
    \A i \in 1..Len(h) :
        IF hand = "L" THEN ~(RLt(Zero, h[i].leftDur) /\ RLt(Zero, h[i].leftLoad))
        ELSE ~(RLt(Zero, h[i].rightDur) /\ RLt(Zero, h[i].rightLoad))

\* the given hand's entries of h as they are, unusable ones included
RawPoints(h, hand) ==
    [i \in 1..Len(h) |->
        [t |-> (IF hand = "L" THEN h[i].leftDur ELSE h[i].rightDur)[1],
         L |-> IF hand = "L" THEN h[i].leftLoad ELSE h[i].rightLoad]]

AllZero(rec, scale) ==
    /\ scale = Zero
    /\ rec.model20 = Zero /\ rec.model60 = Zero /\ rec.model180 = Zero
    /\ rec.ratio20 = Zero /\ rec.ratio60 = Zero /\ rec.ratio180 = Zero

\* C15: with no usable observations (an empty list, or entries that all have
\* duration <= 0 or load <= 0) every estimator returns its "no estimate"
\* sentinel: ratioLoadForT, scaleFromHistory and modelLoadForT all return 0
C15_NoDataGivesZero ==
    AppRecsDone =>
        /\ NoUsable(history, "L") => AllZero(recL, scaleL)
        /\ NoUsable(history, "R") => AllZero(recR, scaleR)

\* the sentinels of one hand with no usable observation: the ratio estimate
\* is 0 (also on the unfiltered entries); scale and model estimates are 0
\* without a manual override, and the override and override * fatigue(T)
\* with one
NoDataAmended(h, hand, rec, scale, w, manualScale) ==
    /\ rec.ratio20 = Zero /\ rec.ratio60 = Zero /\ rec.ratio180 = Zero
    /\ ratioLoadForT(cfg.targets.strength, RawPoints(h, hand)) = Zero
    /\ ~RLt(Zero, manualScale) =>
           /\ scale = Zero
           /\ rec.model20 = Zero /\ rec.model60 = Zero /\ rec.model180 = Zero
    /\ RLt(Zero, manualScale) =>
           /\ scale = manualScale
           /\ rec.model20 = RMul(manualScale, fAt(cfg.targets.power, w, cfg.tau))
           /\ rec.model60 = RMul(manualScale, fAt(cfg.targets.strength, w, cfg.tau))
           /\ rec.model180 = RMul(manualScale, fAt(cfg.targets.endurance, w, cfg.tau))

\* C15 as amended: with no usable observations ratioLoadForT returns 0; with
\* no manual override scaleFromHistory and modelLoadForT return 0 too; with a
\* manual override > 0 scaleFromHistory returns the override and
\* modelLoadForT the override times fatigue(T)
C15_NoDataAmended ==
    AppRecsDone =>
        /\ NoUsable(history, "L") =>
               NoDataAmended(history, "L", recL, scaleL, cfg.wLeft, cfg.manualScaleL)
        /\ NoUsable(history, "R") =>
               NoDataAmended(history, "R", recR, scaleR, cfg.wRight, cfg.manualScaleR)

\* MaxHist records, none usable on the left (one with a duration but no
\* load), no override: every left-hand estimate is 0
C15_Witness ==
    /\ AppRecsDone
    /\ Len(history) = MaxHist
    /\ NoUsable(history, "L")
    /\ \E i \in 1..Len(history) : RLt(Zero, history[i].leftDur)
    /\ cfg.manualScaleL = Zero
    /\ AllZero(recL, scaleL)

\* the pooled points of pts are ordered by duration with non-increasing load
PooledNonIncreasing(pts) ==
    LET arr == Pooled(pts)
    IN  \A i \in 1..(Len(arr) - 1) :
            RLt(arr[i].t, arr[i + 1].t) /\ RLe(arr[i + 1].L, arr[i].L)

\* the three ratio recommendations of rec are non-increasing in the target
RatioNonIncreasing(rec) ==
    LET T == <<cfg.targets.power, cfg.targets.strength, cfg.targets.endurance>>
        r == <<rec.ratio20, rec.ratio60, rec.ratio180>>
    IN  \A i, j \in 1..3 : T[i] <= T[j] => RLe(r[j], r[i])

C16_WitnessCascade ==
    /\ pc = "loop"
    /\ Len(req.pts) = 3
    /\ RLt(req.pts[2].L, req.pts[1].L)
    /\ RLt(req.pts[1].L, req.pts[3].L)
    /\ Len(Pooled(req.pts)) = 1

RDist(x, y) == IF RLt(x, y) THEN RSub(y, x) ELSE RSub(x, y)

\* the observed anchors of pts (one per observed duration, Aggregate(pts))
\* nearest in duration to T
NearestAnchors(T, pts) ==
    LET obs == Aggregate(pts)
    IN  {i \in 1..Len(obs) :
            \A j \in 1..Len(obs) : RLe(RDist(obs[i].t, T), RDist(obs[j].t, T))}

\* at or beyond the pooled durations v is the edge block's load, and it is
\* not higher than the load of a nearest observed anchor
EdgesAsClaimed(targetT, pts, v) ==
    LET arr == Pooled(pts)
        obs == Aggregate(pts)
        T == Int2R(targetT)
    IN  Len(arr) > 0 =>
            /\ RLe(T, arr[1].t) => v = arr[1].L
            /\ RLe(arr[Len(arr)].t, T) => v = arr[Len(arr)].L
            /\ RLe(T, arr[1].t) \/ RLe(arr[Len(arr)].t, T) =>
                   \E i \in NearestAnchors(T, pts) : RLe(v, obs[i].L)

\* C17: for T at or below the smallest pooled duration ratioLoad(T) is the
\* first pooled block's load, for T at or above the largest the last
\* block's; this value is never higher than the load of the nearest observed
\* anchor
C17_FlatEdgesBelowNearestAnchor ==
    /\ AppRecsDone =>
           /\ EdgesAsClaimed(cfg.targets.power, ptsR, recR.ratio20)
           /\ EdgesAsClaimed(cfg.targets.strength, ptsR, recR.ratio60)
           /\ EdgesAsClaimed(cfg.targets.endurance, ptsR, recR.ratio180)
           /\ EdgesAsClaimed(cfg.targets.power, ptsL, recL.ratio20)
           /\ EdgesAsClaimed(cfg.targets.strength, ptsL, recL.ratio60)
           /\ EdgesAsClaimed(cfg.targets.endurance, ptsL, recL.ratio180)
    /\ pc = "loop" => EdgesAsClaimed(req.TUT, req.pts, RatioEst(req))

\* the largest load of the points arr
MaxLoad(arr) == CHOOSE x \in {arr[i].L : i \in 1..Len(arr)} :
                    \A i \in 1..Len(arr) : RLe(arr[i].L, x)

\* the edge values as the code gives them: the edge block's load; at the
\* upper edge not above the longest observed anchor's load, at the lower edge
\* not below the shortest one's, and nowhere above the largest observed load
EdgesAmended(targetT, pts, v) ==
    LET arr == Pooled(pts)
        obs == Aggregate(pts)
        T == Int2R(targetT)
    IN  Len(arr) > 0 =>
            /\ RLe(T, arr[1].t) =>
                   v = arr[1].L /\ RLe(obs[1].L, v) /\ RLe(v, MaxLoad(obs))
            /\ RLe(arr[Len(arr)].t, T) =>
                   v = arr[Len(arr)].L /\ RLe(v, obs[Len(obs)].L)

\* C17 as amended: at or below the smallest pooled duration ratioLoad(T) is
\* the first pooled block's load, at or above the largest the last block's.
\* At the upper edge it is never higher than the load of the longest observed
\* anchor; at the lower edge it is at least the load of the shortest observed
\* anchor (higher when that anchor was pooled) and never higher than the
\* largest observed load
C17_FlatEdgesAmended ==
    /\ AppRecsDone =>
           /\ EdgesAmended(cfg.targets.power, ptsR, recR.ratio20)
           /\ EdgesAmended(cfg.targets.strength, ptsR, recR.ratio60)
           /\ EdgesAmended(cfg.targets.endurance, ptsR, recR.ratio180)
           /\ EdgesAmended(cfg.targets.power, ptsL, recL.ratio20)
           /\ EdgesAmended(cfg.targets.strength, ptsL, recL.ratio60)
           /\ EdgesAmended(cfg.targets.endurance, ptsL, recL.ratio180)
    /\ pc = "loop" => EdgesAmended(req.TUT, req.pts, RatioEst(req))

\* a target at the shortest observed duration, below the pooled block: the
\* estimate is the block's load, above that of the observation at the target
C17_Witness ==
    /\ AppRecsDone
    /\ Len(ptsR) = 2
    /\ cfg.targets.power = ptsR[1].t
    /\ Len(Pooled(ptsR)) = 1
    /\ recR.ratio20 = Pooled(ptsR)[1].L
    /\ RLt(ptsR[1].L, recR.ratio20)
    /\ RLt(recR.ratio20, ptsR[2].L)

\* pts (sorted by duration) has pairwise distinct durations and strictly
\* decreasing loads
StrictlyDecreasing(pts) ==
    \A i \in 1..(Len(pts) - 1) :
        pts[i].t < pts[i + 1].t /\ RLt(pts[i + 1].L, pts[i].L)

\* v is the observed load at an observed duration T, and lies strictly
\* between the two loads for T strictly between adjacent observed durations
AnchorsExactAndBetween(T, pts, v) ==
    StrictlyDecreasing(pts) =>
        /\ \A i \in 1..Len(pts) : pts[i].t = T => v = pts[i].L
        /\ \A i \in 1..(Len(pts) - 1) :
               pts[i].t < T /\ T < pts[i + 1].t =>
                   RLt(pts[i + 1].L, v) /\ RLt(v, pts[i].L)

C18_WitnessBetween ==
    /\ AppRecsDone
    /\ Len(ptsL) = 2
    /\ StrictlyDecreasing(ptsL)
    /\ cfg.targets.power = ptsL[1].t
    /\ cfg.targets.endurance = ptsL[2].t
    /\ recL.ratio20 = ptsL[1].L
    /\ RLt(recL.ratio60, ptsL[1].L)
    /\ RLt(ptsL[2].L, recL.ratio60)
    /\ recL.ratio180 = ptsL[2].L

\* q is strictly decreasing from its second element (t > 0) on
StrictlyDecreasingAfterZero(q) ==
    \A i \in 2..(Len(q) - 1) : RLt(q[i + 1], q[i])

\* the fatigue values pushed so far start at 1 for t = 0 and fall strictly
\* for t > 0
FatigueAsSpecified ==
    /\ Len(fatigueData) >= 1 => fatigueData[1] = One
    /\ StrictlyDecreasingAfterZero(fatigueData)

\* the weights of the chart sum to 1
WeightsSumToOne == RAdd(RAdd(chart.w.w1, chart.w.w2), chart.w.w3) = One

\* C19: fatigue(0, params) = 1 for every valid CurveParams (non-negative
\* weights with at least one > 0, positive taus), and fatigue is strictly
\* decreasing in t for t > 0, in every fatigue-curve implementation (fAt of
\* App.js, fAt of part_000, triShape of App.backup.js)
C19_FatigueOneAtZeroAndDecreasing ==
    chartPc # "idle" => FatigueAsSpecified

\* what the implementations do: fAt of App.js and triShape normalise the
\* weights and start at 1; fAt of part_000 starts at the sum of the weights;
\* all three fall strictly
FatigueAsImplemented ==
    chartPc # "idle" =>
        /\ StrictlyDecreasingAfterZero(fatigueData)
        /\ Len(fatigueData) >= 1 =>
               IF chart.impl = "part_000"
               THEN fatigueData[1] = RAdd(RAdd(chart.w.w1, chart.w.w2), chart.w.w3)
               ELSE fatigueData[1] = One

\* the recovery values pushed so far start at 0 for r = 0, never fall, and
\* stay below 1
RecoveryAsSpecified ==
    /\ Len(recSeries) >= 1 => recSeries[1] = Zero
    /\ \A i \in 1..(Len(recSeries) - 1) : RLe(recSeries[i], recSeries[i + 1])
    /\ \A i \in 1..Len(recSeries) : RLt(recSeries[i], One)

\* C20: recovery(0, recParams) = 0, recovery is non-decreasing in the rest
\* time r, and recovery(r) < 1 for every finite r >= 0, in every recovery
\* implementation (recoveryFrac of App.js, Rof of part_000)
C20_RecoveryZeroAtZeroMonotoneBelowOne ==
    chartPc # "idle" => RecoveryAsSpecified

\* what the implementations do: recoveryFrac is as specified; Rof starts at
\* 1 minus the sum of the weights, and is as specified when they sum to 1
RecoveryAsImplemented ==
    chartPc # "idle" =>
        /\ \A i \in 1..(Len(recSeries) - 1) : RLe(recSeries[i], recSeries[i + 1])
        /\ chart.impl = "App.js" \/ WeightsSumToOne => RecoveryAsSpecified
        /\ Len(recSeries) >= 1 /\ chart.impl = "part_000" =>
               recSeries[1] = RSub(One, RAdd(RAdd(chart.w.w1, chart.w.w2), chart.w.w3))

(***************************************************************************)
(* Properties of rounding, configuration and the simulation step.          *)
(***************************************************************************)
\* the base handed to multiSetPlan is the full-precision mean of the
\* estimates, and the loads of the plan are base * factor in full precision
PlanFromUnroundedValues ==
    LET mean == MeanOfAvailable(estimates.model, estimates.ratio, Null)
    IN  /\ combined = mean
        /\ bkPlan = (IF mean = Null THEN <<>>
                     ELSE multiSetPlanUnrounded(mean, bkForm.beta, bkForm.reps, bkForm.rest))

\* C21: the one-decimal rounding of a recommended load affects only what is
\* displayed: the base load passed to the multi-set planner and the per-set
\* loads it derives are the unrounded full-precision results
C21_RoundingOnlyForDisplay ==
    bkPc = "planned" => PlanFromUnroundedValues

\* what App.backup.js does: the base is the mean rounded to one decimal and
\* every load is base * factor rounded to one decimal again
BackupPlanAsImplemented ==
    bkPc = "planned" =>
        LET mean == MeanOfAvailable(estimates.model, estimates.ratio, Null)
            rounded == IF mean = Null THEN Null ELSE Round1(mean)
        IN  /\ combined = rounded
            /\ bkPlan = (IF mean = Null THEN <<>>
                         ELSE [k \in 1..bkForm.reps |->
                                  Round1(RMul(rounded, TaperFactor(bkForm.rest, k - 1)))])

\* weights non-negative with at least one > 0
ValidWeights(w) ==
    /\ \A k \in Keys : RLe(Zero, w[k])
    /\ \E k \in Keys : RLt(Zero, w[k])

\* every time constant positive
ValidTaus(t) == \A k \in Keys : RLt(Zero, t[k])

ValidCurveParams ==
    /\ ValidWeights(conf.wLeft) /\ ValidWeights(conf.wRight)
    /\ ValidTaus(conf.tau) /\ ValidTaus(conf.rec)

\* C22: after any sequence of configuration-setter operations (weight and
\* tau / recovery-tau sliders and inputs) starting from the default state,
\* the stored curve parameters are valid CurveParams: every weight is
\* non-negative with at least one weight > 0, and every tau is positive
C22_SettersKeepParamsValid ==
    confPc = "editing" => ValidCurveParams

\* what the setters keep: App.js keeps every weight in [0.1, 10] and every
\* tau in [1, 900]; part_000 keeps every weight in [0, 1] and every tau and
\* recovery tau at 1 or more, but lets all three weights of a hand be 0
SettersAsImplemented ==
    confPc = "editing" =>
        /\ ValidTaus(conf.tau) /\ ValidTaus(conf.rec)
        /\ \A k \in Keys : RLe(One, conf.tau[k]) /\ RLe(One, conf.rec[k])
        /\ conf.impl = "App.js" =>
               /\ ValidWeights(conf.wLeft) /\ ValidWeights(conf.wRight)
               /\ \A k \in Keys :
                      /\ RLe(Rat(1, 10), conf.wLeft[k]) /\ RLe(conf.wLeft[k], Int2R(10))
                      /\ RLe(Rat(1, 10), conf.wRight[k]) /\ RLe(conf.wRight[k], Int2R(10))
                      /\ RLe(conf.tau[k], Int2R(900))
        /\ conf.impl = "part_000" =>
               \A k \in Keys : /\ RLe(Zero, conf.wLeft[k]) /\ RLe(conf.wLeft[k], One)
                               /\ RLe(Zero, conf.wRight[k]) /\ RLe(conf.wRight[k], One)

\* the step of the spec: C_next = clamp(C f + (1 - C f) rec, capFloor, 1.0)
StepAsSpecified(c, f, rec) ==
    clamp(RAdd(RMul(c, f), RMul(RSub(One, RMul(c, f)), rec)), CapFloor, One)

\* the capacity after n sets of planSets call r, step by step from 1.0 (one
\* rep per set, each followed by the between-sets rest r.restSec)
RECURSIVE PlanCapacityAfter(_, _)
PlanCapacityAfter(n, r) ==
    IF n = 0 THEN One
    ELSE StepAsSpecified(PlanCapacityAfter(n - 1, r),
                         fAt(r.TUT, r.w, r.tau), recoveryFrac(r.restSec, r.tau))

\* the rest that follows rep n (counted from 1) of simulation r: the
\* between-sets rest after the last rep of a set, else the between-reps rest
RestAfter(n, r) == IF n % r.repsPerSet = 0 THEN r.restSet ELSE r.restRep

\* the capacity after n reps of simulation r, step by step from 1.0
RECURSIVE SimCapacityAfter(_, _)
SimCapacityAfter(n, r) ==
    IF n = 0 THEN One
    ELSE StepAsSpecified(SimCapacityAfter(n - 1, r),
                         fAtPlan(r.T, r.w, r.tau), Rof(RestAfter(n, r), r.w, r.rec))

\* the capacity of planSets is the specified one after every set
PlanStepsAsSpecified ==
    pc = "loop" => currentCapacity = PlanCapacityAfter(s - 1, req)

\* the capacities of simulateCapacityPlan are the specified ones
SimStepsAsSpecified ==
    simPc = "loop" =>
        /\ C = SimCapacityAfter(Len(capacities), simReq)
        /\ \A i \in 1..Len(capacities) : capacities[i] = SimCapacityAfter(i - 1, simReq)

\* C23: each simulation step maps the capacity C before a rep to
\* C_next = clamp(C f + (1 - C f) rec, capFloor, 1.0), f = fatigue(T), rec
\* the recovery fraction of the rest that follows the rep (the between-sets
\* rest if the rep is the last of its set, the between-reps rest otherwise):
\* in planSets of App.js and in simulateCapacityPlan of part_000
C23_StepIsClampedRecovery ==
    PlanStepsAsSpecified /\ SimStepsAsSpecified

\* the step of part_000: the same update without the clamp
RECURSIVE SimCapacityUnclamped(_, _)
SimCapacityUnclamped(n, r) ==
    IF n = 0 THEN One
    ELSE LET c == SimCapacityUnclamped(n - 1, r)
             f == fAtPlan(r.T, r.w, r.tau)
             rec == Rof(RestAfter(n, r), r.w, r.rec)
         IN  RAdd(RMul(c, f), RMul(RSub(One, RMul(c, f)), rec))

SimStepsAsImplemented ==
    simPc = "loop" => C = SimCapacityUnclamped(Len(capacities), simReq)

(***************************************************************************)
(* Properties of the aggregation and of the guards of the curve math.      *)
(***************************************************************************)
\* the valid observations of pts at duration t, their number and load sum
ValidAt(pts, t) ==
    {i \in 1..Len(pts) : pts[i].t = t /\ pts[i].t > 0 /\ RLt(Zero, pts[i].L)}

RECURSIVE LoadSumUpTo(_, _, _)
LoadSumUpTo(pts, t, n) ==
    IF n = 0 THEN Zero
    ELSE IF n \in ValidAt(pts, t) THEN RAdd(LoadSumUpTo(pts, t, n - 1), pts[n].L)
    ELSE LoadSumUpTo(pts, t, n - 1)

\* arr holds, in increasing order of duration, exactly one point per
\* duration that has a valid observation in pts, with the mean of the loads
\* observed at that duration
AggregatedByMean(pts, arr) ==
    /\ \A i \in 1..(Len(arr) - 1) : RLt(arr[i].t, arr[i + 1].t)
    /\ \A i \in 1..Len(pts) :
           ValidAt(pts, pts[i].t) # {} =>
               Cardinality({k \in 1..Len(arr) : arr[k].t = Int2R(pts[i].t)}) = 1
    /\ \A k \in 1..Len(arr) :
           \E i \in 1..Len(pts) :
               /\ arr[k].t = Int2R(pts[i].t)
               /\ ValidAt(pts, pts[i].t) # {}
               /\ RMul(arr[k].L, Int2R(Cardinality(ValidAt(pts, pts[i].t))))
                      = LoadSumUpTo(pts, pts[i].t, Len(pts))

\* C24: before the monotone regression, observations sharing the same
\* duration are replaced by a single point whose load is the arithmetic
\* mean of their loads, and the resulting points are sorted by increasing
\* duration with exactly one point per distinct duration
C24_AggregatedByMeanAndSorted ==
    /\ evalPc = "done" /\ evalIn.impl = "App.js" =>
           AggregatedByMean(evalIn.pts, Aggregate(evalIn.pts))
    /\ pc = "loop" => AggregatedByMean(req.pts, Aggregate(req.pts))
    /\ AppRecsDone => /\ AggregatedByMean(ptsL, Aggregate(ptsL))
                      /\ AggregatedByMean(ptsR, Aggregate(ptsR))

\* a call of ratioLoadForT whose observations hold two different loads at
\* one duration, given after a longer one: the two are replaced by their
\* mean, which is what the call returns for that duration
C24_Witness ==
    /\ evalPc = "done"
    /\ Len(evalIn.pts) = 3
    /\ evalIn.pts[2].t = evalIn.pts[3].t
    /\ evalIn.pts[2].L # evalIn.pts[3].L
    /\ evalIn.pts[1].t > evalIn.pts[2].t
    /\ Len(Aggregate(evalIn.pts)) = 2
    /\ Int2R(evalIn.pts[2].t) = evalIn.T
    /\ evalRatio = RDiv(RAdd(evalIn.pts[2].L, evalIn.pts[3].L), Int2R(2))

\* C25: no curve, scale or interpolation computation divides by zero: for
\* every input, including weights summing to zero or less, taus equal to
\* zero, bracketing points with equal duration, and observations whose
\* fatigue value is at or below epsilon, every divisor actually used is
\* non-zero
C25_NoDivisionByZero ==
    evalPc # "idle" =>
        \A i \in 1..Len(denoms) : denoms[i][1] # 0 /\ denoms[i][2] # 0

\* a call with weights summing to zero or less, a tau of zero, a bracket of
\* equal durations and an observation the scale loop skips, after all its
\* divisions
C25_Witness ==
    /\ evalPc = "done"
    /\ evalIn.impl = "App.js"
    /\ RLe(RAdd(RAdd(evalIn.w.w1, evalIn.w.w2), evalIn.w.w3), Zero)
    /\ evalIn.tau.t1 = 0
    /\ evalIn.a.t = evalIn.b.t
    /\ Len(evalIn.pts) = 2
    /\ Len(denoms) = 5
    /\ denoms[1] = eps /\ denoms[2] = eps /\ denoms[5] = eps

\* a call with valid parameters, all of whose divisions are made
C25_WitnessScale ==
    /\ evalPc = "done"
    /\ evalIn.impl = "App.js"
    /\ Len(evalIn.pts) = 2
    /\ Len(denoms) = 7
    /\ denoms[7] = One

\* the curve functions have returned for the arguments of evalIn
EvalReturned == evalPc \in {"interp", "scale", "done"}

\* the call with a negative time returned what the call with time 0 returns:
\* the fatigue at 0, and no recovery
TimeClampedAtZero ==
    /\ evalF = FatigueOf(evalIn, 0)
    /\ evalF # Null => RLe(evalF, One)
    /\ evalR # Null => evalR = Zero

\* C26: the curve functions clamp their time argument to >= 0 before use:
\* for every t < 0, fatigue(t) = fatigue(0) and recovery(t) = recovery(0) = 0,
\* so fatigue never exceeds 1 and recovery is never negative
C26_NegativeTimeClamped ==
    EvalReturned /\ evalIn.t < 0 => TimeClampedAtZero

\* what the implementations do: triShape of App.backup.js clamps the time;
\* fAt and recoveryFrac of App.js and fAt and Rof of part_000 use it as it
\* is, so a negative time gives a fatigue above 1 and a negative recovery
CurvesAsImplemented ==
    EvalReturned /\ evalIn.t < 0 =>
        IF evalIn.impl = "App.backup.js"
        THEN TimeClampedAtZero
        ELSE RLt(One, evalF) /\ RLt(evalR, Zero)

(***************************************************************************)
(* Properties of the session history.                                      *)
(***************************************************************************)
\* the rows of the history that hold the record n
RowsOf(n) == {k \in 1..Len(localHist) : localHist[k].rec = n}

\* C27: a session record added locally stays in the history until the user
\* deletes it or clears all history: no interleaving of onAddSession (with
\* its pending cloud insert and the later id replacement), sign-in /
\* auth-state changes and the cloud history load removes or duplicates it
C27_AddedRecordStays ==
    syncPc = "running" =>
        \A n \in added \ gone : Cardinality(RowsOf(n)) = 1

\* what the code keeps: no record is in the history twice, and a record
\* that is missing without the user's doing was dropped by a cloud load
\* that had not read it (it was added signed out, or its insert had not
\* reached the table, or failed)
NoRecordTwice ==
    syncPc = "running" => \A n \in added : Cardinality(RowsOf(n)) <= 1

\* the number of observations the row contributes to the two hands
ObservationsOf(row) ==
    Len(historyPoints(<<row>>, "L")) + Len(historyPoints(<<row>>, "R"))

\* C28: every session accepted by the add-session handler (whenever canAdd
\* is true) contributes at least one valid observation (duration > 0 and
\* load > 0 on the same hand) when the history is projected by
\* historyPoints for the left or the right hand
C28_AcceptedSessionHasObservation ==
    syncPc = "running" =>
        \A k \in 1..Len(localHist) : ObservationsOf(localHist[k]) >= 1

\* what canAdd asks for: a load on some hand and a duration on some hand,
\* not both on the same hand
AcceptedAsImplemented ==
    syncPc = "running" =>
        \A k \in 1..Len(localHist) :
            /\ RLt(Zero, localHist[k].leftLoad) \/ RLt(Zero, localHist[k].rightLoad)
            /\ RLt(Zero, localHist[k].leftDur) \/ RLt(Zero, localHist[k].rightDur)

(***************************************************************************)
(* Properties of the cap pass and of the ratio estimate's range.           *)
(***************************************************************************)
\* C29: for capDrop >= 0 the cap pass never changes any load: in every plan
\* produced by planSets each simulated load_i (i > 0) is already <= load_0,
\* because the capacity before any later set never exceeds the initial
\* capacity 1.0
C29_CapNeverBindsForNonNegativeDrop ==
    /\ [][pc = "cap" /\ RLe(Zero, req.capDrop) =>
              /\ out' = out
              /\ \A i \in 2..Len(out) : RLe(out[i], out[1])]_vars
    /\ [](pc \in {"loop", "cap"} => RLe(currentCapacity, One))

\* a plan of several sets with capDrop >= 0 after the cap pass, whose later
\* loads are below the first
C29_Witness ==
    /\ pc = "done"
    /\ RLe(Zero, req.capDrop)
    /\ Len(out) = MaxSets
    /\ RLt(out[2], out[1])
    /\ RLt(Zero, out[MaxSets])

\* the valid observations of pts, and the least and the greatest of their loads
ValidObs(pts) == {i \in 1..Len(pts) : pts[i].t > 0 /\ RLt(Zero, pts[i].L)}
LeastValidLoad(pts) ==
    LET V == ValidObs(pts)
    IN  pts[CHOOSE i \in V : \A j \in V : RLe(pts[i].L, pts[j].L)].L
GreatestValidLoad(pts) ==
    LET V == ValidObs(pts)
    IN  pts[CHOOSE i \in V : \A j \in V : RLe(pts[j].L, pts[i].L)].L

\* the ratio estimate y of pts lies between the least and the greatest
\* valid observed load
WithinObserved(y, pts) == InRange(y, LeastValidLoad(pts), GreatestValidLoad(pts))

\* C30: for any observation list containing at least one valid observation
\* and any target duration T, ratioLoadForT returns a value between the
\* minimum and the maximum valid observed load (inclusive); pooling,
\* extrapolation and interpolation never leave that range
C30_RatioWithinObservedLoads ==
    /\ PlanRan /\ ValidObs(req.pts) # {} => WithinObserved(RatioEst(req), req.pts)
    /\ evalPc = "done" /\ evalIn.impl = "App.js" /\ ValidObs(evalIn.pts) # {} =>
           WithinObserved(evalRatio, evalIn.pts)

\* what the code returns: a value within the observed loads when these are
\* at least eps; the interpolation floors the two loads of its bracket to
\* eps, so between observations with loads below eps the value is eps
RatioRangeAsImplemented ==
    /\ PlanRan /\ ValidObs(req.pts) # {} => WithinObserved(RatioEst(req), req.pts)
    /\ evalPc = "done" /\ evalIn.impl = "App.js" /\ ValidObs(evalIn.pts) # {} =>
           IF RLe(eps, LeastValidLoad(evalIn.pts))
           THEN WithinObserved(evalRatio, evalIn.pts)
           ELSE InRange(evalRatio, LeastValidLoad(evalIn.pts), RMax(eps, GreatestValidLoad(evalIn.pts)))

=============================================================================
